---------------------------- MODULE Spec2Model ----------------------------
(***************************************************************************)
(* A model of the Nerdmaster/terminal line-input library: the Line buffer  *)
(* (line.go), the key parser ParseKey / keyUnknown (bytes_to_key.go) and   *)
(* the history ring stRingBuffer (reader.go), the Scroller (scroller.go)   *)
(* and the Reader with its ReadLine loop (reader.go).                      *)
(*                                                                         *)
(* Runes and bytes are integers.  A Line is a record [Text, Pos] whose     *)
(* Text is a sequence of runes (1-based here, 0-based in Go) and whose Pos *)
(* is the Go cursor index, i.e. the number of runes left of the cursor.    *)
(***************************************************************************)
EXTENDS Integers, Sequences, FiniteSets, TLC

VARIABLES
    line,       \* Line{Text, Pos}: the line buffer under edit
    lastOp,     \* name of the Line operation applied last ("new" after construction)
    inb,        \* the bytes handed to ParseKey: everything the terminal sent so far
    ForceParse, \* the force argument of ParseKey (KeyReader.ForceParse)
    res,        \* what ParseKey(inb, ForceParse) returned: (r, rl, mod)
    keyFed,     \* a whole key sequence has been appended to inb
    nTyped,     \* number of single bytes appended to inb
    history,    \* stRingBuffer{entries, max, head, size}: the history ring
    added,      \* every string handed to Add so far, oldest first
    query,      \* the last NthPreviousEntry call: its n and what it returned
    scroller,   \* Scroller{InputWidth, MaxLineLength, ScrollOffset, LeftOverflow, RightOverflow, ScrollBy}
    filtered,   \* the last Scroller.Filter call: its Line, the offset before it, what it
                \* returned, whether it panicked
    reader,     \* Reader{MaxLineLength, NoHistory, input, pasteActive, remainder, history,
                \* historyIndex, historyPending}
    call,       \* the ReadLine call: where it stands (pc), its local lineIsPasted, what it
                \* returned, and what was typed into the line under edit
    lastRead,   \* the bytes the last Read of the Reader's byte source delivered
    nReads,     \* number of Reads that delivered bytes
    scenario,   \* progress of the scenario "hello world, ESC ESC [ D, Ctrl-W"
    keyReader,  \* KeyReader{ForceParse, remainder, offset, midRune}
    keypress,   \* the Keypress the last ReadKeypress call returned
    keyCall,    \* the last ReadKeypress call: its error, whether it read from the
                \* source, and the bytes it handed to ParseKey
    nKeyReads,  \* number of ReadKeypress calls that read bytes from the source
    hReader,    \* the Reader whose history is browsed key by key
    hCall,      \* its ReadLine call
    browse,     \* the browsing as its user has seen it: the line in progress at the
                \* first Up, the Up and Down keys since, the Reader before the last key
    entered,    \* the lines that Reader has returned and kept, oldest first
    nBrowseKeys, \* number of keys that Reader has read
    cReader,    \* the Reader with an AutoCompleteCallback
    completion, \* the last key it handled: whether the callback was called, with
                \* which arguments, and the Input before the key
    nCompleteKeys, \* number of keys that Reader has handled
    lReader,    \* the Reader an observer thread watches
    mutex,      \* its RWMutex
    lk,         \* the thread in ReadLine: where it is, the bytes and the key at
                \* hand, the Input handleKey started from, the writes to come
    obs,        \* the observer thread: where it is in LinePos or Pos, and what
                \* it has read
    committed,  \* what LinePos would have read before the first and after each
                \* finished handleKey
    nLockReads, \* number of chunks that Reader has read
    pReader,    \* the Reader embedded in the Prompt
    prompt,     \* the Prompt's fields
    screen,     \* the terminal the Prompt writes to
    drawn,      \* the last key reported to the Prompt: the bytes written for it,
                \* and lastOutput and the terminal's cursor before it
    pCall,      \* where the Prompt's caller is: "idle", "ReadLine", "panic"
    nPromptKeys, \* number of keys typed to the Prompt
    wReader,    \* the Reader that reads passwords
    wCall,      \* its call: ReadLine or ReadPassword, and where it is
    wAtCall,    \* that Reader when the call was made
    wLast,      \* that Reader before its last round, and the chunk of the round
    nPasswordReads, \* number of chunks that Reader has read
    sReader,    \* the Reader whose source sends an escape sequence without end
    sCall,      \* its ReadLine call
    stream,     \* the bytes a terminal sends to two KeyReaders
    unsent,     \* what the second KeyReader's source has not delivered yet
    oneReader,  \* the KeyReader that gets the stream in one Read
    oneKeys,    \* the keys it has returned
    cutReader,  \* the KeyReader that gets the stream in several Reads
    cutKeys     \* the keys it has returned

lineVars == <<line, lastOp>>

parseVars == <<inb, ForceParse, res, keyFed, nTyped>>

ringVars == <<history, added, query>>

scrollVars == <<scroller, filtered>>

readerVars == <<reader, call, lastRead, nReads, scenario>>

keyReaderVars == <<keyReader, keypress, keyCall, nKeyReads>>

browseVars == <<hReader, hCall, browse, entered, nBrowseKeys>>

completeVars == <<cReader, completion, nCompleteKeys>>

lockedVars == <<lReader, mutex, lk, obs, committed, nLockReads>>

promptVars == <<pReader, prompt, screen, drawn, pCall, nPromptKeys>>

passwordVars == <<wReader, wCall, wAtCall, wLast, nPasswordReads>>

stagingVars == <<sReader, sCall>>

chunkingVars == <<stream, unsent, oneReader, oneKeys, cutReader, cutKeys>>

vars == <<line, lastOp, inb, ForceParse, res, keyFed, nTyped, history, added, query,
          scroller, filtered, reader, call, lastRead, nReads, scenario,
          keyReader, keypress, keyCall, nKeyReads,
          hReader, hCall, browse, entered, nBrowseKeys,
          cReader, completion, nCompleteKeys,
          lReader, mutex, lk, obs, committed, nLockReads,
          pReader, prompt, screen, drawn, pCall, nPromptKeys,
          wReader, wCall, wAtCall, wLast, nPasswordReads,
          sReader, sCall, stream, unsent, oneReader, oneKeys, cutReader, cutKeys>>

\* what the Line operations leave alone
lineFrame == <<stagingVars, chunkingVars, passwordVars, promptVars, lockedVars, completeVars, browseVars, parseVars, ringVars, scrollVars, readerVars, keyReaderVars>>

\* what the parser steps leave alone
parseFrame == <<stagingVars, chunkingVars, passwordVars, promptVars, lockedVars, completeVars, browseVars, lineVars, ringVars, scrollVars, readerVars, keyReaderVars>>

\* what the history ring operations leave alone
ringFrame == <<stagingVars, chunkingVars, passwordVars, promptVars, lockedVars, completeVars, browseVars, lineVars, parseVars, scrollVars, readerVars, keyReaderVars>>

\* what the Scroller leaves alone
scrollFrame == <<stagingVars, chunkingVars, passwordVars, promptVars, lockedVars, completeVars, browseVars, lineVars, parseVars, ringVars, readerVars, keyReaderVars>>

\* what the Reader leaves alone
readerFrame == <<stagingVars, chunkingVars, passwordVars, promptVars, lockedVars, completeVars, browseVars, lineVars, parseVars, ringVars, scrollVars, keyReaderVars>>

\* what the KeyReader leaves alone
keyReaderFrame == <<stagingVars, chunkingVars, passwordVars, promptVars, lockedVars, completeVars, browseVars, lineVars, parseVars, ringVars, scrollVars, readerVars>>

\* what the Reader with a callback leaves alone
completeFrame ==
    <<stagingVars, chunkingVars, passwordVars, promptVars, lockedVars, lineVars, parseVars, ringVars, scrollVars, readerVars, keyReaderVars, browseVars>>

\* what the watched Reader and its threads leave alone
lockedFrame ==
    <<stagingVars, chunkingVars, passwordVars, promptVars, lineVars, parseVars, ringVars, scrollVars, readerVars, keyReaderVars, browseVars,
      completeVars>>

\* what the Reader with the endless escape sequence leaves alone
stagingFrame ==
    <<chunkingVars, passwordVars, lineVars, parseVars, ringVars, scrollVars, readerVars, keyReaderVars, browseVars,
      completeVars, lockedVars, promptVars>>

\* what the two KeyReaders of one stream leave alone
chunkingFrame ==
    <<stagingVars, passwordVars, lineVars, parseVars, ringVars, scrollVars, readerVars, keyReaderVars, browseVars,
      completeVars, lockedVars, promptVars>>

\* what the Reader of passwords leaves alone
passwordFrame ==
    <<stagingVars, chunkingVars, lineVars, parseVars, ringVars, scrollVars, readerVars, keyReaderVars, browseVars,
      completeVars, lockedVars, promptVars>>

\* what the Prompt leaves alone
promptFrame ==
    <<stagingVars, chunkingVars, passwordVars, lineVars, parseVars, ringVars, scrollVars, readerVars, keyReaderVars, browseVars,
      completeVars, lockedVars>>

\* what the browsing Reader leaves alone
browseFrame == <<stagingVars, chunkingVars, passwordVars, promptVars, lockedVars, completeVars, lineVars, parseVars, ringVars, scrollVars, readerVars, keyReaderVars>>

----------------------------------------------------------------------------
(* Bounds of the Line exploration *)

\* longest line the exploration builds
MaxText == 4

\* largest n handed to EraseNPreviousChars
MaxErase == 3

\* runes typed into the line: space (the word separator), 'a' and 'b'
LineRunes == {32, 97, 98}

----------------------------------------------------------------------------
(* line.go: type Line and its methods.  Each method is an operator from    *)
(* the Line before the call to the Line after it.                          *)

\* Go's l.Text[i] with a 0-based index
TextAt(l, i) == l.Text[i + 1]

\* Go's l.Text[lo:hi] with 0-based bounds
Slice(s, lo, hi) == SubSeq(s, lo + 1, hi)

NewLine == [Text |-> <<>>, Pos |-> 0]

Clear(l) == [Text |-> <<>>, Pos |-> 0]

AddKeyToLine(l, key) ==
    [Text |-> Slice(l.Text, 0, l.Pos) \o <<key>> \o Slice(l.Text, l.Pos, Len(l.Text)),
     Pos  |-> l.Pos + 1]

\* EraseNPreviousChars erasing one rune whatever n is
EraseNPreviousChars_One(l, n) ==
    IF l.Pos = 0 \/ n = 0
    THEN l
    ELSE [Text |-> Slice(l.Text, 0, l.Pos - 1) \o Slice(l.Text, l.Pos, Len(l.Text)),
          Pos  |-> l.Pos - 1]

EraseNPreviousChars(l, n) ==
    IF l.Pos = 0 \/ n = 0
    THEN l
    ELSE LET m  == IF l.Pos < n THEN l.Pos ELSE n
             np == l.Pos - m
         IN  [Text |-> Slice(l.Text, 0, np) \o Slice(l.Text, m + np, Len(l.Text)),
              Pos  |-> np]

DeleteLine(l) == [l EXCEPT !.Text = Slice(l.Text, 0, l.Pos)]

MoveLeft(l) == IF l.Pos = 0 THEN l ELSE [l EXCEPT !.Pos = l.Pos - 1]

\* MoveRight without the end-of-line test
MoveRight_NoClamp(l) == [l EXCEPT !.Pos = l.Pos + 1]

MoveRight(l) == IF l.Pos = Len(l.Text) THEN l ELSE [l EXCEPT !.Pos = l.Pos + 1]

MoveHome(l) == [l EXCEPT !.Pos = 0]

MoveEnd(l) == [l EXCEPT !.Pos = Len(l.Text)]

\* DeleteRuneUnderCursor without the test of the cursor against the end
DeleteRuneUnderCursor_NoGuard(l) == EraseNPreviousChars(MoveRight(l), 1)

DeleteRuneUnderCursor(l) ==
    IF l.Pos < Len(l.Text) THEN EraseNPreviousChars(MoveRight(l), 1) ELSE l

DeleteToBeginningOfLine(l) == EraseNPreviousChars(l, l.Pos)

\* first loop of CountToLeftWord: step left over spaces while pos > 0
RECURSIVE SkipSpacesLeft(_, _)
SkipSpacesLeft(l, pos) ==
    IF pos > 0 /\ TextAt(l, pos) = 32 THEN SkipSpacesLeft(l, pos - 1) ELSE pos

\* the second loop stopping on the space instead of the rune after it
RECURSIVE SkipWordLeft_OnSpace(_, _)
SkipWordLeft_OnSpace(l, pos) ==
    IF pos > 0
    THEN IF TextAt(l, pos) = 32 THEN pos ELSE SkipWordLeft_OnSpace(l, pos - 1)
    ELSE pos

\* second loop of CountToLeftWord: step left to the space before the word
RECURSIVE SkipWordLeft(_, _)
SkipWordLeft(l, pos) ==
    IF pos > 0
    THEN IF TextAt(l, pos) = 32 THEN pos + 1 ELSE SkipWordLeft(l, pos - 1)
    ELSE pos

CountToLeftWord(l) ==
    IF l.Pos = 0 THEN 0
    ELSE l.Pos - SkipWordLeft(l, SkipSpacesLeft(l, l.Pos - 1))

MoveToLeftWord(l) == [l EXCEPT !.Pos = l.Pos - CountToLeftWord(l)]

\* first loop of CountToRightWord: step right over the current word
RECURSIVE SkipWordRight(_, _)
SkipWordRight(l, pos) ==
    IF pos < Len(l.Text) /\ TextAt(l, pos) # 32 THEN SkipWordRight(l, pos + 1) ELSE pos

\* second loop of CountToRightWord: step right over the separating spaces
RECURSIVE SkipSpacesRight(_, _)
SkipSpacesRight(l, pos) ==
    IF pos < Len(l.Text) /\ TextAt(l, pos) = 32 THEN SkipSpacesRight(l, pos + 1) ELSE pos

CountToRightWord(l) == SkipSpacesRight(l, SkipWordRight(l, l.Pos)) - l.Pos

MoveToRightWord(l) == [l EXCEPT !.Pos = l.Pos + CountToRightWord(l)]

----------------------------------------------------------------------------
(* Key codes and modifiers.  Control keys are their ASCII code; the named  *)
(* keys sit in the UTF-16 surrogate area from 0xd800 + 29 on.  KeyF1 to    *)
(* KeyF12, KeyLeftBracket and KeyPause are used by ParseKey but declared   *)
(* in no file at hand; they continue the list after KeyPgDn.               *)

KeyEscape == 27
KeyEnter == 13
KeyBackspace == 127
KeyUnknown == 55325
KeyUp == 55326
KeyDown == 55327
KeyLeft == 55328
KeyRight == 55329
KeyHome == 55330
KeyEnd == 55331
KeyPasteStart == 55332
KeyPasteEnd == 55333
KeyInsert == 55334
KeyDelete == 55335
KeyPgUp == 55336
KeyPgDn == 55337
KeyF1 == 55338
KeyF2 == 55339
KeyF3 == 55340
KeyF4 == 55341
KeyF5 == 55342
KeyF6 == 55343
KeyF7 == 55344
KeyF8 == 55345
KeyF9 == 55346
KeyF10 == 55347
KeyF11 == 55348
KeyF12 == 55349
KeyLeftBracket == 55350
KeyPause == 55351

ModNone == 0
ModAlt == 1
ModMeta == 2

\* m | flag on the two-bit modifier set
ModOr(m, flag) == IF (m \div flag) % 2 = 1 THEN m ELSE m + flag

\* utf8.RuneError
RuneError == 65533

\* the bytes the parser compares against
ChESC == 27
ChLBracket == 91
ChO == 79
ChSemi == 59
ChTilde == 126
ChCtrlX == 24
ChAt == 64

\* the ASCII code of a digit, of an upper-case and of a lower-case letter
Digit(d) == 48 + d
Upper(i) == 64 + i
Lower(i) == 96 + i

pasteStart == <<27, 91, 50, 48, 48, 126>>
pasteEnd == <<27, 91, 50, 48, 49, 126>>

----------------------------------------------------------------------------
(* unicode/utf8 as ParseKey uses it: FullRune and DecodeRune over bytes    *)

\* size of the encoding announced by a first byte (1 for ASCII and for
\* bytes that cannot start an encoding)
Utf8Size(p0) ==
    IF p0 < 194 THEN 1
    ELSE IF p0 < 224 THEN 2
    ELSE IF p0 < 240 THEN 3
    ELSE IF p0 < 245 THEN 4
    ELSE 1

\* lowest and highest second byte accepted after the first byte p0
Utf8Lo(p0) == IF p0 = 224 THEN 160 ELSE IF p0 = 240 THEN 144 ELSE 128
Utf8Hi(p0) == IF p0 = 237 THEN 159 ELSE IF p0 = 244 THEN 143 ELSE 191

IsCont(c) == c >= 128 /\ c <= 191

\* utf8.FullRune: p begins with a full encoding of a rune; an invalid
\* encoding counts as a full rune of width 1
FullRune(p) ==
    IF Len(p) = 0 THEN FALSE
    ELSE IF Len(p) >= Utf8Size(p[1]) THEN TRUE
    ELSE IF Len(p) > 1 /\ (p[2] < Utf8Lo(p[1]) \/ Utf8Hi(p[1]) < p[2]) THEN TRUE
    ELSE IF Len(p) > 2 /\ ~IsCont(p[3]) THEN TRUE
    ELSE FALSE

\* utf8.DecodeRune: the first rune of p and its width in bytes
DecodeRune(p) ==
    IF Len(p) < 1 THEN [r |-> RuneError, size |-> 0]
    ELSE IF p[1] < 128 THEN [r |-> p[1], size |-> 1]
    ELSE IF Utf8Size(p[1]) = 1 THEN [r |-> RuneError, size |-> 1]
    ELSE IF Len(p) < Utf8Size(p[1]) THEN [r |-> RuneError, size |-> 1]
    ELSE IF p[2] < Utf8Lo(p[1]) \/ Utf8Hi(p[1]) < p[2] THEN [r |-> RuneError, size |-> 1]
    ELSE IF Utf8Size(p[1]) = 2
         THEN [r |-> (p[1] % 32) * 64 + (p[2] % 64), size |-> 2]
    ELSE IF ~IsCont(p[3]) THEN [r |-> RuneError, size |-> 1]
    ELSE IF Utf8Size(p[1]) = 3
         THEN [r |-> (p[1] % 16) * 4096 + (p[2] % 64) * 64 + (p[3] % 64), size |-> 3]
    ELSE IF ~IsCont(p[4]) THEN [r |-> RuneError, size |-> 1]
    ELSE [r |-> (p[1] % 8) * 262144 + (p[2] % 64) * 4096 + (p[3] % 64) * 64 + (p[4] % 64),
          size |-> 4]

----------------------------------------------------------------------------
(* bytes_to_key.go: ParseKey and keyUnknown.  A result is the triple       *)
(* (r, rl, mod) of the Go function.  The Go function updates its locals    *)
(* b, rl and mod as it goes; each stage below takes them as parameters     *)
(* and hands the updated values to the next stage.  l is always len(b).    *)

\* Go's b[i] with a 0-based index
At(b, i) == b[i + 1]

\* Go's b[i:]
From(b, i) == SubSeq(b, i + 1, Len(b))

Result(r, rl, mod) == [r |-> r, rl |-> rl, mod |-> mod]

\* c is one of [a-zA-Z~]
IsTerminator(c) == (c >= 97 /\ c <= 122) \/ (c >= 65 /\ c <= 90) \/ c = 126

\* index of the first terminator of b at or after i, or len(b) when there is none
FirstTerminator(b, i) ==
    LET found == {j \in i..(Len(b) - 1) : IsTerminator(At(b, j))}
    IN  IF found = {} THEN Len(b)
        ELSE CHOOSE j \in found : \A k \in found : j <= k

\* keyUnknown reporting an unfinished sequence as an unknown key of no bytes
keyUnknown_ZeroUnknown(b, rl, force, mod) ==
    IF Len(b) > 8 /\ ~force THEN Result(RuneError, 1, ModNone)
    ELSE IF FirstTerminator(b, 0) < Len(b)
         THEN Result(KeyUnknown, rl + FirstTerminator(b, 0) + 1, mod)
    ELSE IF force THEN Result(RuneError, rl + Len(b), mod)
    ELSE Result(KeyUnknown, 0, ModNone)

keyUnknown(b, rl, force, mod) ==
    IF Len(b) > 8 /\ ~force THEN Result(RuneError, 1, ModNone)
    ELSE IF FirstTerminator(b, 0) < Len(b)
         THEN Result(KeyUnknown, rl + FirstTerminator(b, 0) + 1, mod)
    ELSE IF force THEN Result(RuneError, rl + Len(b), mod)
    ELSE Result(RuneError, 0, ModNone)

\* the switch on b[2] of the three-byte sequences; 0 when no case matches
CsiFinalKey(c) ==
    CASE c = Upper(1) -> KeyUp
      [] c = Upper(2) -> KeyDown
      [] c = Upper(3) -> KeyRight
      [] c = Upper(4) -> KeyLeft
      [] c = Upper(8) -> KeyHome
      [] c = Upper(6) -> KeyEnd
      [] c = Upper(16) -> KeyPause
      [] OTHER -> 0

\* the switch on b[2] of "\x1b[N~"; 0 when no case matches
CsiTildeKey(c) ==
    CASE c = Digit(1) -> KeyHome
      [] c = Digit(2) -> KeyInsert
      [] c = Digit(3) -> KeyDelete
      [] c = Digit(4) -> KeyEnd
      [] c = Digit(5) -> KeyPgUp
      [] c = Digit(6) -> KeyPgDn
      [] OTHER -> 0

\* the switch on b[3] of the raw terminal function keys "\x1b[[X"
RawFunctionKey(c) ==
    CASE c = Upper(1) -> KeyF1
      [] c = Upper(2) -> KeyF2
      [] c = Upper(3) -> KeyF3
      [] c = Upper(4) -> KeyF4
      [] c = Upper(5) -> KeyF5
      [] OTHER -> 0

\* the function key table with F6..F8 on 16, 17, 18 instead of 17, 18, 19
FunctionKey_NoGap(c2, c3) ==
    CASE c2 = Digit(1) /\ c3 = Digit(1) -> KeyF1
      [] c2 = Digit(1) /\ c3 = Digit(2) -> KeyF2
      [] c2 = Digit(1) /\ c3 = Digit(3) -> KeyF3
      [] c2 = Digit(1) /\ c3 = Digit(4) -> KeyF4
      [] c2 = Digit(1) /\ c3 = Digit(5) -> KeyF5
      [] c2 = Digit(1) /\ c3 = Digit(6) -> KeyF6
      [] c2 = Digit(1) /\ c3 = Digit(7) -> KeyF7
      [] c2 = Digit(1) /\ c3 = Digit(8) -> KeyF8
      [] c2 = Digit(2) /\ c3 = Digit(0) -> KeyF9
      [] c2 = Digit(2) /\ c3 = Digit(1) -> KeyF10
      [] c2 = Digit(2) /\ c3 = Digit(3) -> KeyF11
      [] c2 = Digit(2) /\ c3 = Digit(4) -> KeyF12
      [] OTHER -> 0

\* the nested switch on b[2], b[3] of "\x1b[NM~"; 0 when no case matches
FunctionKey(c2, c3) ==
    CASE c2 = Digit(1) /\ c3 = Digit(1) -> KeyF1
      [] c2 = Digit(1) /\ c3 = Digit(2) -> KeyF2
      [] c2 = Digit(1) /\ c3 = Digit(3) -> KeyF3
      [] c2 = Digit(1) /\ c3 = Digit(4) -> KeyF4
      [] c2 = Digit(1) /\ c3 = Digit(5) -> KeyF5
      [] c2 = Digit(1) /\ c3 = Digit(7) -> KeyF6
      [] c2 = Digit(1) /\ c3 = Digit(8) -> KeyF7
      [] c2 = Digit(1) /\ c3 = Digit(9) -> KeyF8
      [] c2 = Digit(2) /\ c3 = Digit(0) -> KeyF9
      [] c2 = Digit(2) /\ c3 = Digit(1) -> KeyF10
      [] c2 = Digit(2) /\ c3 = Digit(3) -> KeyF11
      [] c2 = Digit(2) /\ c3 = Digit(4) -> KeyF12
      [] OTHER -> 0

\* the switch on b2 of the SS3 function keys "\x1bOP".."\x1bOS"
SS3Key(c) ==
    CASE c = Upper(16) -> KeyF1
      [] c = Upper(17) -> KeyF2
      [] c = Upper(18) -> KeyF3
      [] c = Upper(19) -> KeyF4
      [] OTHER -> 0

\* lines 207-257: the five-byte function keys, the paste markers, the rest
ParseFunctionKeys(b, rl, force, mod) ==
    IF At(b, 4) = ChTilde /\ FunctionKey(At(b, 2), At(b, 3)) # 0
    THEN Result(FunctionKey(At(b, 2), At(b, 3)), rl + 5, mod)
    ELSE IF Len(b) < 6 THEN keyUnknown(b, rl, force, mod)
    ELSE IF SubSeq(b, 1, 6) = pasteEnd THEN Result(KeyPasteEnd, rl + 6, mod)
    ELSE IF SubSeq(b, 1, 6) = pasteStart THEN Result(KeyPasteStart, rl + 6, mod)
    ELSE keyUnknown(b, rl, force, mod)

\* lines 199-205: "\x1b[NM;1~" loses ";1" and gains Meta
ParseMetaFunction(b, rl, force, mod) ==
    IF Len(b) > 6 /\ At(b, 4) = ChSemi /\ At(b, 5) = Digit(1) /\ At(b, 6) = ChTilde
    THEN ParseFunctionKeys(SubSeq(b, 1, 4) \o From(b, 6), rl + 2, force, ModOr(mod, ModMeta))
    ELSE ParseFunctionKeys(b, rl, force, mod)

\* lines 132-197: the three- and four-byte sequences after "\x1b["
ParseCsi(b, rl, force, mod) ==
    IF Len(b) < 3 THEN keyUnknown(b, rl, force, mod)
    ELSE IF CsiFinalKey(At(b, 2)) # 0 THEN Result(CsiFinalKey(At(b, 2)), rl + 3, mod)
    ELSE IF Len(b) < 4 THEN keyUnknown(b, rl, force, mod)
    ELSE IF At(b, 3) = ChTilde /\ CsiTildeKey(At(b, 2)) # 0
         THEN Result(CsiTildeKey(At(b, 2)), rl + 4, mod)
    ELSE IF At(b, 2) = ChLBracket /\ RawFunctionKey(At(b, 3)) # 0
         THEN Result(RawFunctionKey(At(b, 3)), rl + 4, mod)
    ELSE IF Len(b) < 5 THEN keyUnknown(b, rl, force, mod)
    ELSE ParseMetaFunction(b, rl, force, mod)

\* lines 124-130: "\x1b[" N ";3~" becomes "\x1b[" N "~" with Alt
ParseAltTilde(b, rl, force, mod) ==
    IF Len(b) >= 6 /\ At(b, 3) = ChSemi /\ At(b, 4) = Digit(3) /\ At(b, 5) = ChTilde
    THEN ParseCsi(<<ChESC, ChLBracket, At(b, 2)>> \o From(b, 5), rl + 2, force, ModOr(mod, ModAlt))
    ELSE ParseCsi(b, rl, force, mod)

\* lines 115-122: "\x1b[1;3" X becomes "\x1b[" X with Alt
ParseAltCsi(b, rl, force, mod) ==
    IF Len(b) >= 6 /\ At(b, 2) = Digit(1) /\ At(b, 3) = ChSemi /\ At(b, 4) = Digit(3)
    THEN ParseAltTilde(<<ChESC, ChLBracket>> \o From(b, 5), rl + 3, force, ModOr(mod, ModAlt))
    ELSE ParseAltTilde(b, rl, force, mod)

\* ParseRune waiting for the rest of a rune even when force is set
ParseRune_Waits(b, rl, force, mod) ==
    IF At(b, 0) < KeyEscape THEN Result(At(b, 0), rl + 1, mod)
    ELSE IF At(b, 0) # KeyEscape
         THEN IF ~FullRune(b)
              THEN Result(RuneError, rl, mod)
              ELSE Result(DecodeRune(b).r, rl + DecodeRune(b).size, mod)
    ELSE IF Len(b) = 1
         THEN IF force THEN Result(KeyEscape, rl + 1, mod)
              ELSE keyUnknown(b, rl, force, mod)
    ELSE IF Len(b) < 3
         THEN IF force THEN Result(RuneError, rl + Len(b), mod)
              ELSE keyUnknown(b, rl, force, mod)
    ELSE IF At(b, 1) # ChLBracket THEN keyUnknown(b, rl, force, mod)
    ELSE ParseAltCsi(b, rl, force, mod)

\* lines 73-113: control keys, plain runes, and the short escape sequences
ParseRune(b, rl, force, mod) ==
    IF At(b, 0) < KeyEscape THEN Result(At(b, 0), rl + 1, mod)
    ELSE IF At(b, 0) # KeyEscape
         THEN IF ~FullRune(b)
              THEN IF force THEN Result(RuneError, rl + Len(b), mod)
                   ELSE Result(RuneError, rl, mod)
              ELSE Result(DecodeRune(b).r, rl + DecodeRune(b).size, mod)
    ELSE IF Len(b) = 1
         THEN IF force THEN Result(KeyEscape, rl + 1, mod)
              ELSE keyUnknown(b, rl, force, mod)
    ELSE IF Len(b) < 3
         THEN IF force THEN Result(RuneError, rl + Len(b), mod)
              ELSE keyUnknown(b, rl, force, mod)
    ELSE IF At(b, 1) # ChLBracket THEN keyUnknown(b, rl, force, mod)
    ELSE ParseAltCsi(b, rl, force, mod)

\* lines 65-71: "\x1b" followed by anything but '[' is an Alt prefix
ParseAltPrefix(b, rl, force, mod) ==
    IF Len(b) > 1 /\ At(b, 0) = ChESC /\ At(b, 1) # ChLBracket
    THEN ParseRune(From(b, 1), rl + 1, force, ModOr(mod, ModAlt))
    ELSE ParseRune(b, rl, force, mod)

\* the two-byte special cases taken whether or not force is set
ParseForceShort_Always(b, rl, force, mod) ==
    IF Len(b) = 2 /\ At(b, 0) = ChESC /\ At(b, 1) = ChESC
    THEN Result(KeyEscape, rl + 2, ModOr(mod, ModAlt))
    ELSE IF Len(b) = 2 /\ At(b, 0) = ChESC /\ At(b, 1) = ChLBracket
    THEN Result(KeyLeftBracket, rl + 2, ModOr(mod, ModAlt))
    ELSE ParseAltPrefix(b, rl, force, mod)

\* lines 53-63: alt+esc and alt+left-bracket when force is set
ParseForceShort(b, rl, force, mod) ==
    IF Len(b) = 2 /\ force /\ At(b, 0) = ChESC /\ At(b, 1) = ChESC
    THEN Result(KeyEscape, rl + 2, ModOr(mod, ModAlt))
    ELSE IF Len(b) = 2 /\ force /\ At(b, 0) = ChESC /\ At(b, 1) = ChLBracket
    THEN Result(KeyLeftBracket, rl + 2, ModOr(mod, ModAlt))
    ELSE ParseAltPrefix(b, rl, force, mod)

\* lines 45-51: the three-byte meta prefix
ParseMetaPrefix(b, rl, force, mod) ==
    IF Len(b) > 3 /\ At(b, 0) = ChCtrlX /\ At(b, 1) = ChAt /\ At(b, 2) = Lower(19)
    THEN ParseForceShort(From(b, 3), rl + 3, force, ModOr(mod, ModMeta))
    ELSE ParseForceShort(b, rl, force, mod)

\* lines 24-43: F1-F4 as "\x1bO" [ "1" ] P/Q/R/S; the byte count and the
\* modifier set for the "1" stay set when the switch matches nothing
ParseSS3(b, force) ==
    IF Len(b) > 2 /\ At(b, 0) = ChESC /\ At(b, 1) = ChO
    THEN LET shifted == Len(b) > 3 /\ At(b, 2) = Digit(1)
             b2      == IF shifted THEN At(b, 3) ELSE At(b, 2)
             rl      == IF shifted THEN 1 ELSE 0
             mod     == IF shifted THEN ModMeta ELSE ModNone
         IN  IF SS3Key(b2) # 0 THEN Result(SS3Key(b2), rl + 3, mod)
             ELSE ParseMetaPrefix(b, rl, force, mod)
    ELSE ParseMetaPrefix(b, 0, force, ModNone)

ParseKey(b, force) ==
    IF Len(b) = 0 THEN Result(RuneError, 0, ModNone)
    ELSE ParseSS3(b, force)

----------------------------------------------------------------------------
(* reader.go: stRingBuffer, the history ring.  A string is the sequence of *)
(* its runes; entries is nil (the empty sequence) until the first Add.     *)

defaultNumEntries == 100

NewRing == [entries |-> <<>>, max |-> 0, head |-> 0, size |-> 0]

\* the allocation of the entries on the first Add
Allocated(s) ==
    IF s.entries = <<>>
    THEN [s EXCEPT !.entries = [i \in 1..defaultNumEntries |-> <<>>],
                   !.max = defaultNumEntries]
    ELSE s

\* Add storing at the head before advancing it
Add_StoreFirst(s, a) ==
    LET t == Allocated(s)
    IN  [t EXCEPT !.entries[t.head + 1] = a,
                  !.head = (t.head + 1) % t.max,
                  !.size = IF t.size < t.max THEN t.size + 1 ELSE t.size]

Add(s, a) ==
    LET t == Allocated(s)
        h == (t.head + 1) % t.max
    IN  [t EXCEPT !.head = h,
                  !.entries[h + 1] = a,
                  !.size = IF t.size < t.max THEN t.size + 1 ELSE t.size]

NthPreviousEntry(s, n) ==
    IF n >= s.size THEN [value |-> <<>>, ok |-> FALSE]
    ELSE LET index == IF s.head - n < 0 THEN s.head - n + s.max ELSE s.head - n
         IN  [value |-> s.entries[index + 1], ok |-> TRUE]

----------------------------------------------------------------------------
(* The Line operations as actions on the line buffer *)

InitLine ==
    /\ line = NewLine
    /\ lastOp = "new"

DoAddKeyToLine ==
    \E key \in LineRunes :
        /\ Len(line.Text) < MaxText
        /\ line' = AddKeyToLine(line, key)
        /\ lastOp' = "AddKeyToLine"
        /\ UNCHANGED lineFrame

DoEraseNPreviousChars ==
    \E n \in 0..MaxErase :
        /\ line' = EraseNPreviousChars(line, n)
        /\ lastOp' = "EraseNPreviousChars"
        /\ UNCHANGED lineFrame

DoDeleteLine ==
    /\ line' = DeleteLine(line)
    /\ lastOp' = "DeleteLine"
    /\ UNCHANGED lineFrame

DoDeleteRuneUnderCursor ==
    /\ line' = DeleteRuneUnderCursor(line)
    /\ lastOp' = "DeleteRuneUnderCursor"
    /\ UNCHANGED lineFrame

DoDeleteToBeginningOfLine ==
    /\ line' = DeleteToBeginningOfLine(line)
    /\ lastOp' = "DeleteToBeginningOfLine"
    /\ UNCHANGED lineFrame

DoMoveLeft ==
    /\ line' = MoveLeft(line)
    /\ lastOp' = "MoveLeft"
    /\ UNCHANGED lineFrame

DoMoveRight ==
    /\ line' = MoveRight(line)
    /\ lastOp' = "MoveRight"
    /\ UNCHANGED lineFrame

DoMoveHome ==
    /\ line' = MoveHome(line)
    /\ lastOp' = "MoveHome"
    /\ UNCHANGED lineFrame

DoMoveEnd ==
    /\ line' = MoveEnd(line)
    /\ lastOp' = "MoveEnd"
    /\ UNCHANGED lineFrame

DoMoveToLeftWord ==
    /\ line' = MoveToLeftWord(line)
    /\ lastOp' = "MoveToLeftWord"
    /\ UNCHANGED lineFrame

DoMoveToRightWord ==
    /\ line' = MoveToRightWord(line)
    /\ lastOp' = "MoveToRightWord"
    /\ UNCHANGED lineFrame

DoClear ==
    /\ line' = Clear(line)
    /\ lastOp' = "Clear"
    /\ UNCHANGED lineFrame

NextLine ==
    \/ DoAddKeyToLine
    \/ DoEraseNPreviousChars
    \/ DoDeleteLine
    \/ DoDeleteRuneUnderCursor
    \/ DoDeleteToBeginningOfLine
    \/ DoMoveLeft
    \/ DoMoveRight
    \/ DoMoveHome
    \/ DoMoveEnd
    \/ DoMoveToLeftWord
    \/ DoMoveToRightWord
    \/ DoClear

----------------------------------------------------------------------------
(* Feeding the parser.  The terminal sends an optional meta prefix, then   *)
(* optionally the whole byte sequence of one key, then single bytes; after *)
(* every arrival the pending bytes are parsed again, as KeyReader does.    *)

\* single bytes beyond the key sequence
MaxTyped == 3

MetaPrefix == <<24, 64, 115>>

\* the single bytes: Ctrl-D, ESC, '[', '1', ';', '~', 'a', and the two
\* bytes 0xC3 0xA9 of U+00E9
TypedBytes == {4, 27, 91, 49, 59, 126, 97, 195, 169}

\* "\x1b[" followed by one final byte
Csi1(c) == <<27, 91, c>>

\* "\x1b[" followed by two bytes
Csi2(c, d) == <<27, 91, c, d>>

\* the unmodified key sequences and the key each one stands for
PlainKeys ==
    {<<Csi1(Upper(1)), KeyUp>>, <<Csi1(Upper(2)), KeyDown>>,
     <<Csi1(Upper(3)), KeyRight>>, <<Csi1(Upper(4)), KeyLeft>>,
     <<Csi1(Upper(8)), KeyHome>>, <<Csi1(Upper(6)), KeyEnd>>,
     <<Csi2(Digit(1), 126), KeyHome>>, <<Csi2(Digit(2), 126), KeyInsert>>,
     <<Csi2(Digit(3), 126), KeyDelete>>, <<Csi2(Digit(4), 126), KeyEnd>>,
     <<Csi2(Digit(5), 126), KeyPgUp>>, <<Csi2(Digit(6), 126), KeyPgDn>>,
     <<<<27, 91, 50, 48, 48, 126>>, KeyPasteStart>>,
     <<<<27, 91, 50, 48, 49, 126>>, KeyPasteEnd>>,
     <<<<27, 79, Upper(16)>>, KeyF1>>, <<<<27, 79, Upper(17)>>, KeyF2>>,
     <<<<27, 79, Upper(18)>>, KeyF3>>, <<<<27, 79, Upper(19)>>, KeyF4>>,
     <<Csi2(91, Upper(1)), KeyF1>>, <<Csi2(91, Upper(2)), KeyF2>>,
     <<Csi2(91, Upper(3)), KeyF3>>, <<Csi2(91, Upper(4)), KeyF4>>,
     <<Csi2(91, Upper(5)), KeyF5>>,
     <<Csi2(Digit(1), Digit(1)) \o <<126>>, KeyF1>>,
     <<Csi2(Digit(1), Digit(2)) \o <<126>>, KeyF2>>,
     <<Csi2(Digit(1), Digit(3)) \o <<126>>, KeyF3>>,
     <<Csi2(Digit(1), Digit(4)) \o <<126>>, KeyF4>>,
     <<Csi2(Digit(1), Digit(5)) \o <<126>>, KeyF5>>,
     <<Csi2(Digit(1), Digit(7)) \o <<126>>, KeyF6>>,
     <<Csi2(Digit(1), Digit(8)) \o <<126>>, KeyF7>>,
     <<Csi2(Digit(1), Digit(9)) \o <<126>>, KeyF8>>,
     <<Csi2(Digit(2), Digit(0)) \o <<126>>, KeyF9>>,
     <<Csi2(Digit(2), Digit(1)) \o <<126>>, KeyF10>>,
     <<Csi2(Digit(2), Digit(3)) \o <<126>>, KeyF11>>,
     <<Csi2(Digit(2), Digit(4)) \o <<126>>, KeyF12>>}

\* the cursor keys with a final letter, and the editing keys "\x1b[N~"
LetterKeys == {e \in PlainKeys : Len(e[1]) = 3 /\ e[1][2] = 91}
TildeKeys == {e \in PlainKeys : Len(e[1]) = 4 /\ e[1][4] = 126}

\* the Alt encodings of the cursor and editing keys
AltKeys ==
    {<<<<27>> \o e[1], e[2]>> : e \in LetterKeys}
    \cup {<<<<27, 91, 49, 59, 51, e[1][3]>>, e[2]>> : e \in LetterKeys}
    \cup {<<<<27, 91, e[1][3], 59, 51, 126>>, e[2]>> : e \in TildeKeys}

\* the function keys "\x1b[NM~"
FunctionKeys == {e \in PlainKeys : Len(e[1]) = 5}

\* the Meta encodings "\x1bO1P".."\x1bO1S" and "\x1b[NM;1~"
MetaKeys ==
    {<<<<27, 79, 49, e[1][3]>>, e[2]>> : e \in {x \in PlainKeys : x[1][2] = 79}}
    \cup {<<SubSeq(e[1], 1, 4) \o <<59, 49, 126>>, e[2]>> : e \in FunctionKeys}

\* sequences this parser has no entry for: Alt+O, Alt+a, Alt+U+00E9,
\* Ctrl+Up "\x1b[1;5A", Shift+Up "\x1b[1;2A", Ctrl+Delete "\x1b[3;5~", and
\* the Alt prefix "\x1b[1;3" with a digit typed behind it
OtherSequences ==
    {<<27, 79>>, <<27, 97>>, <<27, 195, 169>>,
     <<27, 91, 49, 59, 53, 65>>, <<27, 91, 49, 59, 50, 65>>,
     <<27, 91, 51, 59, 53, 126>>, <<27, 91, 49, 59, 51, 49>>}

KeySequences ==
    {e[1] : e \in PlainKeys \cup AltKeys \cup MetaKeys} \cup OtherSequences

InitParse ==
    /\ inb = <<>>
    /\ ForceParse = FALSE
    /\ res = ParseKey(<<>>, FALSE)
    /\ keyFed = FALSE
    /\ nTyped = 0

\* the terminal sends the meta prefix ahead of a key
FeedMeta ==
    /\ inb = <<>>
    /\ inb' = MetaPrefix
    /\ res' = ParseKey(inb', ForceParse)
    /\ UNCHANGED <<ForceParse, keyFed, nTyped>>
    /\ UNCHANGED parseFrame

\* the terminal sends the whole sequence of one key
FeedKey ==
    \E s \in KeySequences :
        /\ ~keyFed
        /\ nTyped = 0
        /\ inb' = inb \o s
        /\ keyFed' = TRUE
        /\ res' = ParseKey(inb', ForceParse)
        /\ UNCHANGED <<ForceParse, nTyped>>
        /\ UNCHANGED parseFrame

\* one more byte arrives
FeedByte ==
    \E c \in TypedBytes :
        /\ nTyped < MaxTyped
        /\ inb' = Append(inb, c)
        /\ nTyped' = nTyped + 1
        /\ res' = ParseKey(inb', ForceParse)
        /\ UNCHANGED <<ForceParse, keyFed>>
        /\ UNCHANGED parseFrame

\* the caller flips ForceParse and the pending bytes are parsed again
ToggleForce ==
    /\ ForceParse' = ~ForceParse
    /\ res' = ParseKey(inb, ForceParse')
    /\ UNCHANGED <<inb, keyFed, nTyped>>
    /\ UNCHANGED parseFrame

NextParse ==
    \/ FeedMeta
    \/ FeedKey
    \/ FeedByte
    \/ ToggleForce

----------------------------------------------------------------------------
(* The history ring under a run of Add calls with NthPreviousEntry lookups *)
(* in between.  The k-th Add stores the one-rune string <<k>>, so that     *)
(* every stored string differs from every other one.                       *)

\* number of Add calls: the ring wraps around twice
MaxAdds == 205

\* largest n handed to NthPreviousEntry
MaxQuery == 103

NoQuery == [n |-> -1, value |-> <<>>, ok |-> FALSE]

InitRing ==
    /\ history = NewRing
    /\ added = <<>>
    /\ query = NoQuery

DoAdd ==
    /\ Len(added) < MaxAdds
    /\ history' = Add(history, <<Len(added) + 1>>)
    /\ added' = Append(added, <<Len(added) + 1>>)
    /\ query' = NoQuery
    /\ UNCHANGED ringFrame

DoNthPreviousEntry ==
    \E n \in 0..MaxQuery :
        /\ query' = [n |-> n,
                     value |-> NthPreviousEntry(history, n).value,
                     ok |-> NthPreviousEntry(history, n).ok]
        /\ UNCHANGED <<history, added>>
        /\ UNCHANGED ringFrame

NextRing ==
    \/ DoAdd
    \/ DoNthPreviousEntry

----------------------------------------------------------------------------
(* scroller.go: type Scroller.  Filter is an operator from the Scroller    *)
(* and the Line handed to it to the Scroller after the call, the slice and *)
(* the cursor column it returns, and whether the call panicked instead of  *)
(* returning.                                                              *)

\* const ScrollBy
ScrollBy == 10

\* the rune U+2026, the default overflow glyph
Ellipsis == 8230

NewScroller ==
    [InputWidth |-> -1, MaxLineLength |-> -1, ScrollOffset |-> 0,
     LeftOverflow |-> Ellipsis, RightOverflow |-> Ellipsis, ScrollBy |-> ScrollBy]

Reset(s) == [s EXCEPT !.ScrollOffset = 0]

\* the loop "too far left": off is s.ScrollOffset, cur is cursorLoc
RECURSIVE TooFarLeft(_, _, _)
TooFarLeft(off, cur, by) ==
    IF cur <= 0 /\ off > 0
    THEN TooFarLeft(off - by, cur + by, by)
    ELSE [off |-> off, cur |-> cur]

\* the loop "too far right"
RECURSIVE TooFarRight(_, _, _, _, _)
TooFarRight(off, cur, by, width, maxScroll) ==
    IF cur >= width - 1 /\ off < maxScroll
    THEN TooFarRight(off + by, cur - by, by, width, maxScroll)
    ELSE [off |-> off, cur |-> cur]

\* what a Filter call yields
Filtered(s, out, cursorLoc, panicked) ==
    [s |-> s, out |-> out, cursorLoc |-> cursorLoc, panicked |-> panicked]

\* the overflow glyphs written over the edges of the visible runes
Overflow(s, lineLen, out) ==
    LET left == IF s.ScrollOffset > 0 /\ s.LeftOverflow # 0
                THEN [out EXCEPT ![1] = s.LeftOverflow]
                ELSE out
    IN  IF s.InputWidth + s.ScrollOffset < lineLen /\ s.RightOverflow # 0
        THEN [left EXCEPT ![Len(left)] = s.RightOverflow]
        ELSE left

Filter(s, l) ==
    IF s.InputWidth < 1 \/ s.MaxLineLength < 1
    THEN Filtered(s, l.Text, l.Pos, FALSE)
    ELSE
        LET lineLen == Len(l.Text)
            lft == TooFarLeft(s.ScrollOffset, l.Pos - s.ScrollOffset, s.ScrollBy)
            lftOff == IF lft.off < 0 THEN 0 ELSE lft.off
            maxScroll == s.MaxLineLength - s.InputWidth
            rgt == TooFarRight(lftOff, lft.cur, s.ScrollBy, s.InputWidth, maxScroll)
            off == IF rgt.off >= maxScroll THEN maxScroll ELSE rgt.off
            s1 == [s EXCEPT !.ScrollOffset = off]
            end == IF off + s.InputWidth > lineLen THEN lineLen ELSE off + s.InputWidth
        IN  IF off < 0 \/ off > end
            THEN \* l.Text[s.ScrollOffset:end]: slice bounds out of range
                 Filtered(s1, <<>>, rgt.cur, TRUE)
            ELSE IF off = end /\ off > 0 /\ s.LeftOverflow # 0
            THEN \* s.nextOutput[0] on an empty slice: index out of range
                 Filtered(s1, <<>>, rgt.cur, TRUE)
            ELSE Filtered(s1, Overflow(s1, lineLen, Slice(l.Text, off, end)), rgt.cur, FALSE)

----------------------------------------------------------------------------
(* The Scroller's caller: it sets the exported fields, resets the offset   *)
(* when a new line starts and hands Lines to Filter.  Filter looks at the  *)
(* length of the text and at the cursor only, never at a rune's value, so  *)
(* the texts handed to it are the prefixes of "abc...": every rune differs *)
(* from every other one and from each overflow glyph.  The fields are set  *)
(* while no line is being shown (after construction or Reset), as Prompt   *)
(* does; the offset then evolves over the Filter calls of that line.  A    *)
(* call that panics ends the run.                                          *)

\* widest InputWidth tried, next to the package's example width of 10
MaxWidth == 3

\* largest MaxLineLength tried, next to the example limit of 100
MaxLimit == 4

\* largest ScrollBy tried, next to the default of 10
MaxScrollBy == 2

\* longest text handed to Filter, next to the example text of 25 runes
MaxShown == 5

\* InputWidth values: the constructor's -1, and widths from 1
InputWidths == {-1, 10} \cup 1..MaxWidth

\* MaxLineLength values
LineLimits == {-1, 100} \cup 1..MaxLimit

\* ScrollBy values
ScrollBys == {ScrollBy} \cup 1..MaxScrollBy

\* <<LeftOverflow, RightOverflow>>: the default glyphs, none, '<' and '>'
Overflows == {<<Ellipsis, Ellipsis>>, <<0, 0>>, <<60, 62>>}

\* the text "abc..." of n runes
ShownText(n) == [i \in 1..n |-> 96 + i]

\* the Lines handed to Filter
ShownLines ==
    UNION {{[Text |-> ShownText(n), Pos |-> p] : p \in 0..n} :
           n \in (0..MaxShown) \cup {25}}

NotFiltered == [called |-> FALSE, l |-> NewLine, before |-> 0, out |-> <<>>,
                cursorLoc |-> 0, panicked |-> FALSE]

\* no line is being shown: nothing was filtered since construction or Reset
Idle == ~filtered.called /\ scroller.ScrollOffset = 0

InitScroller ==
    /\ scroller = NewScroller
    /\ filtered = NotFiltered

SetInputWidth ==
    \E w \in InputWidths :
        /\ Idle
        /\ scroller' = [scroller EXCEPT !.InputWidth = w]
        /\ filtered' = NotFiltered
        /\ UNCHANGED scrollFrame

SetMaxLineLength ==
    \E m \in LineLimits :
        /\ Idle
        /\ scroller' = [scroller EXCEPT !.MaxLineLength = m]
        /\ filtered' = NotFiltered
        /\ UNCHANGED scrollFrame

SetScrollBy ==
    \E by \in ScrollBys :
        /\ Idle
        /\ scroller' = [scroller EXCEPT !.ScrollBy = by]
        /\ filtered' = NotFiltered
        /\ UNCHANGED scrollFrame

SetOverflow ==
    \E o \in Overflows :
        /\ Idle
        /\ scroller' = [scroller EXCEPT !.LeftOverflow = o[1], !.RightOverflow = o[2]]
        /\ filtered' = NotFiltered
        /\ UNCHANGED scrollFrame

DoReset ==
    /\ ~filtered.panicked
    /\ scroller' = Reset(scroller)
    /\ filtered' = NotFiltered
    /\ UNCHANGED scrollFrame

DoFilter ==
    \E l \in ShownLines :
        LET f == Filter(scroller, l)
        IN  /\ ~filtered.panicked
            /\ scroller' = f.s
            /\ filtered' = [called |-> TRUE, l |-> l, before |-> scroller.ScrollOffset,
                            out |-> f.out, cursorLoc |-> f.cursorLoc,
                            panicked |-> f.panicked]
            /\ UNCHANGED scrollFrame

NextScroller ==
    \/ SetInputWidth
    \/ SetMaxLineLength
    \/ SetScrollBy
    \/ SetOverflow
    \/ DoReset
    \/ DoFilter

----------------------------------------------------------------------------
(* reader.go: type Reader, bytesToKey, handleKey and ReadLine.  The Input  *)
(* that the Reader edits has the methods of the Line of line.go (its field *)
(* Line is the Text of a Line), so the Line operators above stand for      *)
(* them.  A Go string is the sequence of the runes it decodes to.  No      *)
(* AutoCompleteCallback is installed.                                      *)

DefaultMaxLineLength == 4096

keyCtrlD == 4
keyCtrlU == 21
keyEnter == 13
keyEscape == 27
keyBackspace == 127
\* the constant keyUnknown of reader.go: 0xd800 + iota, the sixth of its block
keyUnknownKey == 55301
keyUp == 55302
keyDown == 55303
keyLeft == 55304
keyRight == 55305
keyAltLeft == 55306
keyAltRight == 55307
keyHome == 55308
keyEnd == 55309
keyDeleteWord == 55310
keyDeleteLine == 55311
keyClearScreen == 55312
keyPasteStart == 55313
keyPasteEnd == 55314
keyPgUp == 55315
keyPgDn == 55316

\* string(runes): a rune that is no valid code point becomes U+FFFD
RunesToString(t) ==
    [i \in 1..Len(t) |->
        IF t[i] < 0 \/ (t[i] >= 55296 /\ t[i] <= 57343) \/ t[i] > 1114111
        THEN RuneError
        ELSE t[i]]

\* Line.String
String(l) == RunesToString(l.Text)

\* Line.Set
Set(l, t, p) == [Text |-> t, Pos |-> p]

\* what bytesToKey returns: the key and the remainder of the input, or a
\* panic on an index past the end of b
Parsed(key, rest) == [key |-> key, rest |-> rest, panicked |-> FALSE]

ParsePanic == [key |-> RuneError, rest |-> <<>>, panicked |-> TRUE]

\* the closing loop of bytesToKey: an unknown key up to the first [a-zA-Z~],
\* or a partial sequence
bytesToKeyUnknown(b) ==
    IF FirstTerminator(b, 0) < Len(b)
    THEN Parsed(keyUnknownKey, From(b, FirstTerminator(b, 0) + 1))
    ELSE Parsed(RuneError, b)

\* the sequences ESC [ 1 ; 3 C/D, paste start and paste end
bytesToKeyLong(b, pasteActive) ==
    IF /\ ~pasteActive
       /\ Len(b) >= 6
       /\ At(b, 1) = ChLBracket
       /\ At(b, 2) = Digit(1)
       /\ At(b, 3) = ChSemi
       /\ At(b, 4) = Digit(3)
       /\ At(b, 5) \in {Upper(3), Upper(4)}
    THEN IF At(b, 5) = Upper(3)
         THEN Parsed(keyAltRight, From(b, 6))
         ELSE Parsed(keyAltLeft, From(b, 6))
    ELSE IF ~pasteActive /\ Len(b) >= 6 /\ Slice(b, 0, 6) = pasteStart
    THEN Parsed(keyPasteStart, From(b, 6))
    ELSE IF pasteActive /\ Len(b) >= 6 /\ Slice(b, 0, 6) = pasteEnd
    THEN Parsed(keyPasteEnd, From(b, 6))
    ELSE bytesToKeyUnknown(b)

\* the sequences ESC [ A/B/C/D/H/F and ESC [ 5/6 ~; b[3] is read without a
\* test of len(b)
bytesToKeyCsi(b, pasteActive) ==
    IF ~pasteActive /\ Len(b) >= 3 /\ At(b, 1) = ChLBracket
    THEN IF At(b, 2) = Upper(1) THEN Parsed(keyUp, From(b, 3))
         ELSE IF At(b, 2) = Upper(2) THEN Parsed(keyDown, From(b, 3))
         ELSE IF At(b, 2) = Upper(3) THEN Parsed(keyRight, From(b, 3))
         ELSE IF At(b, 2) = Upper(4) THEN Parsed(keyLeft, From(b, 3))
         ELSE IF At(b, 2) = Upper(8) THEN Parsed(keyHome, From(b, 3))
         ELSE IF At(b, 2) = Upper(6) THEN Parsed(keyEnd, From(b, 3))
         ELSE IF At(b, 2) \in {Digit(5), Digit(6)}
         THEN IF Len(b) < 4 THEN ParsePanic
              ELSE IF At(b, 3) = ChTilde
              THEN Parsed(IF At(b, 2) = Digit(5) THEN keyPgUp ELSE keyPgDn, From(b, 4))
              ELSE bytesToKeyLong(b, pasteActive)
         ELSE bytesToKeyLong(b, pasteActive)
    ELSE bytesToKeyLong(b, pasteActive)

bytesToKey(b, pasteActive) ==
    IF Len(b) = 0 THEN Parsed(RuneError, <<>>)
    ELSE IF ~pasteActive /\ At(b, 0) = 1 THEN Parsed(keyHome, From(b, 1))
    ELSE IF ~pasteActive /\ At(b, 0) = 5 THEN Parsed(keyEnd, From(b, 1))
    ELSE IF ~pasteActive /\ At(b, 0) = 8 THEN Parsed(keyBackspace, From(b, 1))
    ELSE IF ~pasteActive /\ At(b, 0) = 11 THEN Parsed(keyDeleteLine, From(b, 1))
    ELSE IF ~pasteActive /\ At(b, 0) = 12 THEN Parsed(keyClearScreen, From(b, 1))
    ELSE IF ~pasteActive /\ At(b, 0) = 23 THEN Parsed(keyDeleteWord, From(b, 1))
    ELSE IF At(b, 0) # keyEscape
    THEN IF ~FullRune(b) THEN Parsed(RuneError, b)
         ELSE Parsed(DecodeRune(b).r, From(b, DecodeRune(b).size))
    ELSE bytesToKeyCsi(b, pasteActive)

isPrintable(key) == key >= 32 /\ ~(key >= 55296 /\ key <= 56319)

\* what handleKey returns, next to the Reader it leaves behind
Handled(r, ln, ok) == [r |-> r, line |-> ln, ok |-> ok]

\* fetchPreviousHistory saving the line shown as the pending line on every call
fetchPreviousHistory_AlwaysSave(r) ==
    IF r.NoHistory THEN [r |-> r, ok |-> FALSE]
    ELSE IF ~NthPreviousEntry(r.history, r.historyIndex + 1).ok THEN [r |-> r, ok |-> FALSE]
    ELSE LET entry == NthPreviousEntry(r.history, r.historyIndex + 1).value
         IN  [r |-> [r EXCEPT !.historyPending = String(r.input),
                              !.historyIndex = @ + 1,
                              !.input = Set(r.input, entry, Len(entry))],
              ok |-> TRUE]

\* what fetchPreviousHistory returns, next to the Reader it leaves behind
fetchPreviousHistory(r) ==
    IF r.NoHistory THEN [r |-> r, ok |-> FALSE]
    ELSE IF ~NthPreviousEntry(r.history, r.historyIndex + 1).ok THEN [r |-> r, ok |-> FALSE]
    ELSE LET entry == NthPreviousEntry(r.history, r.historyIndex + 1).value
         IN  [r |-> [r EXCEPT !.historyPending =
                                  IF r.historyIndex = -1 THEN String(r.input) ELSE @,
                              !.historyIndex = @ + 1,
                              !.input = Set(r.input, entry, Len(entry))],
              ok |-> TRUE]

fetchNextHistory(r) ==
    IF r.NoHistory THEN r
    ELSE IF r.historyIndex = -1 THEN r
    ELSE IF r.historyIndex = 0
    THEN [r EXCEPT !.input = Set(r.input, r.historyPending, Len(r.historyPending)),
                   !.historyIndex = @ - 1]
    ELSE IF NthPreviousEntry(r.history, r.historyIndex - 1).ok
    THEN LET entry == NthPreviousEntry(r.history, r.historyIndex - 1).value
         IN  [r EXCEPT !.historyIndex = @ - 1,
                       !.input = Set(r.input, entry, Len(entry))]
    ELSE r

\* the default case of handleKey, without a callback
handleKeyDefault(r, key) ==
    IF ~isPrintable(key) THEN r
    ELSE IF Len(r.input.Text) = r.MaxLineLength THEN r
    ELSE [r EXCEPT !.input = AddKeyToLine(r.input, key)]

\* the Input after one of the editing keys of handleKey's switch
handleKeyEdit(i, key) ==
    IF key = keyBackspace THEN EraseNPreviousChars(i, 1)
    ELSE IF key = keyAltLeft THEN MoveToLeftWord(i)
    ELSE IF key = keyAltRight THEN MoveToRightWord(i)
    ELSE IF key = keyLeft THEN MoveLeft(i)
    ELSE IF key = keyRight THEN MoveRight(i)
    ELSE IF key = keyHome THEN MoveHome(i)
    ELSE IF key = keyEnd THEN MoveEnd(i)
    ELSE IF key = keyDeleteWord THEN EraseNPreviousChars(i, CountToLeftWord(i))
    ELSE IF key = keyDeleteLine THEN DeleteLine(i)
    ELSE IF key = keyCtrlD THEN DeleteRuneUnderCursor(i)
    ELSE IF key = keyCtrlU THEN DeleteToBeginningOfLine(i)
    ELSE i

EditKeys ==
    {keyBackspace, keyAltLeft, keyAltRight, keyLeft, keyRight, keyHome, keyEnd,
     keyDeleteWord, keyDeleteLine, keyCtrlD, keyCtrlU, keyClearScreen}

\* handleKey without its test of pasteActive
handleKey_NoPaste(r, key) ==
    IF key \in EditKeys
    THEN Handled([r EXCEPT !.input = handleKeyEdit(r.input, key)], <<>>, FALSE)
    ELSE IF key = keyUp THEN Handled(fetchPreviousHistory(r).r, <<>>, FALSE)
    ELSE IF key = keyDown THEN Handled(fetchNextHistory(r), <<>>, FALSE)
    ELSE IF key = keyEnter
    THEN Handled([r EXCEPT !.input = Clear(r.input)], String(r.input), TRUE)
    ELSE Handled(handleKeyDefault(r, key), <<>>, FALSE)

handleKey(r, key) ==
    IF r.pasteActive /\ key # keyEnter
    THEN Handled([r EXCEPT !.input = AddKeyToLine(r.input, key)], <<>>, FALSE)
    ELSE IF key \in EditKeys
    THEN Handled([r EXCEPT !.input = handleKeyEdit(r.input, key)], <<>>, FALSE)
    ELSE IF key = keyUp THEN Handled(fetchPreviousHistory(r).r, <<>>, FALSE)
    ELSE IF key = keyDown THEN Handled(fetchNextHistory(r), <<>>, FALSE)
    ELSE IF key = keyEnter
    THEN Handled([r EXCEPT !.input = Clear(r.input)], String(r.input), TRUE)
    ELSE Handled(handleKeyDefault(r, key), <<>>, FALSE)

\* The inner loop of ReadLine over the bytes rest.  st holds the Reader r,
\* the bytes rest, the local lineIsPasted and two records of what was typed
\* into the line under edit: outside (a key other than Enter was handled
\* outside a paste) and pasted (a key was added inside a paste).  The loop
\* ends with out = "more" (a partial sequence or no bytes: break), "line"
\* (handleKey returned a line), "eof" (return "", io.EOF) or "panic".
RECURSIVE ReadKeys(_)

\* one pass of the loop body: k is what bytesToKey returned for st.rest and
\* h what handleKey does with that key
ReadKey(st, k, h) ==
    IF k.panicked THEN [st EXCEPT !.out = "panic"]
    ELSE IF k.key = RuneError THEN [st EXCEPT !.rest = k.rest, !.out = "more"]
    ELSE IF ~st.r.pasteActive /\ k.key = keyCtrlD /\ Len(st.r.input.Text) = 0
    THEN [st EXCEPT !.rest = k.rest, !.out = "eof", !.outside = TRUE]
    ELSE IF ~st.r.pasteActive /\ k.key = keyPasteStart
    THEN ReadKeys([st EXCEPT !.rest = k.rest,
                             !.r.pasteActive = TRUE,
                             !.lineIsPasted = IF Len(st.r.input.Text) = 0 THEN TRUE ELSE @])
    ELSE IF st.r.pasteActive /\ k.key = keyPasteEnd
    THEN ReadKeys([st EXCEPT !.rest = k.rest, !.r.pasteActive = FALSE])
    ELSE IF h.ok
    THEN [st EXCEPT !.rest = k.rest,
                    !.r = h.r,
                    !.lineIsPasted = IF st.r.pasteActive THEN @ ELSE FALSE,
                    !.line = h.line,
                    !.out = "line"]
    ELSE ReadKeys([st EXCEPT !.rest = k.rest,
                             !.r = h.r,
                             !.lineIsPasted = IF st.r.pasteActive THEN @ ELSE FALSE,
                             !.outside = IF st.r.pasteActive THEN @ ELSE TRUE,
                             !.pasted = IF st.r.pasteActive THEN TRUE ELSE @])

ReadKeys(st) ==
    ReadKey(st, bytesToKey(st.rest, st.r.pasteActive),
            handleKey(st.r, bytesToKey(st.rest, st.r.pasteActive).key))

\* One round of ReadLine's outer loop, from "rest := r.remainder" to the
\* return or to the blocking Read: the Reader and the call it leaves.  c is
\* the call so far: pc, lineIsPasted, the values returned, and the records
\* outside and pasted of the line under edit.
ReadLineRound(r, c) ==
    LET k == ReadKeys([r |-> r, rest |-> r.remainder, lineIsPasted |-> c.lineIsPasted,
                       outside |-> c.outside, pasted |-> c.pasted,
                       line |-> <<>>, out |-> "more"])
        kept == [k.r EXCEPT !.remainder = k.rest]
    IN  IF k.out = "panic"
        THEN [r |-> k.r,
              c |-> [c EXCEPT !.pc = "panic", !.lineIsPasted = k.lineIsPasted,
                              !.outside = k.outside, !.pasted = k.pasted]]
        ELSE IF k.out = "eof"
        THEN \* returns before the remainder is stored
             [r |-> k.r,
              c |-> [c EXCEPT !.pc = "idle", !.lineIsPasted = k.lineIsPasted,
                              !.line = <<>>, !.err = "EOF",
                              !.outside = k.outside, !.pasted = k.pasted,
                              !.allPasted = FALSE]]
        ELSE IF k.out = "line"
        THEN [r |-> IF kept.NoHistory THEN kept
                    ELSE [kept EXCEPT !.historyIndex = -1,
                                      !.history = Add(kept.history, k.line)],
              c |-> [c EXCEPT !.pc = "idle", !.lineIsPasted = k.lineIsPasted,
                              !.line = k.line,
                              !.err = IF k.lineIsPasted THEN "ErrPasteIndicator" ELSE "nil",
                              !.outside = FALSE, !.pasted = FALSE,
                              !.allPasted = k.pasted /\ ~k.outside]]
        ELSE [r |-> kept,
              c |-> [c EXCEPT !.pc = "Read", !.lineIsPasted = k.lineIsPasted,
                              !.outside = k.outside, !.pasted = k.pasted]]

NewReader ==
    [MaxLineLength |-> DefaultMaxLineLength, NoHistory |-> FALSE,
     input |-> NewLine, pasteActive |-> FALSE, remainder |-> <<>>,
     history |-> NewRing, historyIndex |-> -1, historyPending |-> <<>>]

----------------------------------------------------------------------------
(* The Reader's caller and its byte source.  The caller may shorten        *)
(* MaxLineLength before the first ReadLine, calls ReadLine, and calls it   *)
(* again once it has returned.  Each Read of the byte source delivers one  *)
(* chunk of bytes: a whole key, a part of a key sequence, or several keys  *)
(* at once.                                                                *)

\* number of chunks the byte source delivers
MaxReads == 4

\* the MaxLineLength of a Reader with a short line limit
ShortLine == 2

\* "hello world"
HelloWorld == <<104, 101, 108, 108, 111, 32, 119, 111, 114, 108, 100>>

\* the bytes of Alt+Left that ParseKey decodes: ESC ESC [ D
EscEscLeft == <<27, 27, 91, 68>>

\* a whole paste followed by Enter: ESC [ 200 ~ h i ESC [ 201 ~ CR
PastedHi == pasteStart \o <<104, 105>> \o pasteEnd \o <<13>>

Chunks ==
    {<<97>>,                      \* a
     <<13>>,                      \* Enter
     <<4>>,                       \* Ctrl-D
     <<127>>,                     \* Backspace
     <<23>>,                      \* Ctrl-W
     <<27, 91, 68>>,              \* Left
     <<27, 91, 65>>,              \* Up
     <<27, 91, 66>>,              \* Down
     <<27, 91, 49, 59, 51, 68>>,  \* ESC [ 1 ; 3 D
     pasteStart,
     pasteEnd,
     EscEscLeft,
     HelloWorld,
     PastedHi,
     <<27, 91>>,                  \* the start of a sequence
     <<68>>,                      \* D, the end of a sequence or a rune
     <<97, 127, 4>>,              \* a, Backspace, Ctrl-D in one read
     <<97, 4>>}                   \* a, Ctrl-D in one read

\* the progress of the scenario "hello world, ESC ESC [ D, Ctrl-W" typed key
\* by key into an empty line, after the chunk c was read in the state before
Scenario(c) ==
    IF /\ c = HelloWorld
       /\ reader.input = NewLine
       /\ reader.remainder = <<>>
       /\ ~reader.pasteActive
    THEN 1
    ELSE IF scenario = 1 /\ c = EscEscLeft THEN 2
    ELSE IF scenario = 2 /\ c = <<23>> THEN 3
    ELSE 0

NoCall == [pc |-> "idle", lineIsPasted |-> FALSE, line |-> <<>>, err |-> "none",
           outside |-> FALSE, pasted |-> FALSE, allPasted |-> FALSE]

InitReader ==
    /\ reader = NewReader
    /\ call = NoCall
    /\ lastRead = <<>>
    /\ nReads = 0
    /\ scenario = 0

SetReaderMaxLineLength ==
    /\ reader = NewReader
    /\ call = NoCall
    /\ reader' = [reader EXCEPT !.MaxLineLength = ShortLine]
    /\ UNCHANGED <<call, lastRead, nReads, scenario>>
    /\ UNCHANGED readerFrame

CallReadLine ==
    /\ call.pc = "idle"
    /\ LET round == ReadLineRound(reader, [call EXCEPT !.lineIsPasted = reader.pasteActive,
                                                       !.line = <<>>,
                                                       !.err = "nil",
                                                       !.allPasted = FALSE])
       IN  /\ reader' = round.r
           /\ call' = round.c
    /\ lastRead' = <<>>
    /\ UNCHANGED <<nReads, scenario>>
    /\ UNCHANGED readerFrame

Read ==
    \E c \in Chunks :
        /\ call.pc = "Read"
        /\ nReads < MaxReads
        /\ LET round == ReadLineRound([reader EXCEPT !.remainder = @ \o c], call)
           IN  /\ reader' = round.r
               /\ call' = round.c
        /\ lastRead' = c
        /\ nReads' = nReads + 1
        /\ scenario' = Scenario(c)
        /\ UNCHANGED readerFrame

\* a failed Read that throws the pending bytes away
ReadLineFails_Drops(r, c) ==
    [r |-> [r EXCEPT !.remainder = <<>>],
     c |-> [c EXCEPT !.pc = "idle", !.line = <<>>, !.err = "io"]]

\* r.c.Read returned an error: ReadLine returns it at once, the Reader as
\* it was when Read was called
ReadLineFails(r, c) ==
    [r |-> r, c |-> [c EXCEPT !.pc = "idle", !.line = <<>>, !.err = "io"]]

ReadFails ==
    /\ call.pc = "Read"
    /\ reader' = ReadLineFails(reader, call).r
    /\ call' = ReadLineFails(reader, call).c
    /\ lastRead' = <<>>
    /\ UNCHANGED <<nReads, scenario>>
    /\ UNCHANGED readerFrame

NextReader ==
    \/ SetReaderMaxLineLength
    \/ CallReadLine
    \/ Read
    \/ ReadFails

----------------------------------------------------------------------------
(* keys.go: KeyReader, which stages the bytes of its source in inBuf and    *)
(* hands out one Keypress per ReadKeypress call.  remainder is the slice    *)
(* inBuf[:len(remainder)], so the record keeps only its bytes; a Keypress's *)
(* Raw is the slice remainder[:Size], kept as the bytes it shows when the   *)
(* call returns.                                                            *)

NewKeyReader == [ForceParse |-> FALSE, remainder |-> <<>>, offset |-> 0, midRune |-> FALSE]

Keypress(key, size, mod, raw) == [Key |-> key, Size |-> size, Modifier |-> mod, Raw |-> raw]

\* bytes_to_key.go lines 45-71: how many leading bytes of the caller's slice
\* ParseKey has stepped over (b = b[3:], b = b[1:]) when it reaches "\x1b["
WorkingOffset(b) ==
    LET meta == IF Len(b) > 3 /\ At(b, 0) = ChCtrlX /\ At(b, 1) = ChAt /\ At(b, 2) = Lower(19)
                THEN 3 ELSE 0
        b1   == From(b, meta)
        alt  == IF Len(b1) > 1 /\ At(b1, 0) = ChESC /\ At(b1, 1) # ChLBracket
                THEN 1 ELSE 0
    IN  meta + alt

\* bytes_to_key.go lines 73-201: w, still a slice of the caller's array, gets
\* as far as the append of line 201; the rewrites of lines 118 and 126 build
\* arrays of their own and the two tests exclude one another with this one
RewritesBuffer(w) ==
    /\ Len(w) > 6
    /\ At(w, 0) = ChESC /\ At(w, 1) = ChLBracket
    /\ CsiFinalKey(At(w, 2)) = 0
    /\ ~(At(w, 3) = ChTilde /\ CsiTildeKey(At(w, 2)) # 0)
    /\ ~(At(w, 2) = ChLBracket /\ RawFunctionKey(At(w, 3)) # 0)
    /\ At(w, 4) = ChSemi /\ At(w, 5) = Digit(1) /\ At(w, 6) = ChTilde

\* the caller's bytes after ParseKey(b, force) has returned: line 201,
\* b = append(b[:4], b[6:]...), copies w[6:] down to w[4:] in place and leaves
\* the last two bytes where they were
ParseKeyBuffer(b, force) ==
    LET k == WorkingOffset(b)
        w == From(b, k)
    IN  IF RewritesBuffer(w)
        THEN SubSeq(b, 1, k + 4) \o From(w, 6) \o From(b, Len(b) - 2)
        ELSE b

\* lines 84-95: drop the bytes of the Keypress returned last
Unshift(r) ==
    IF r.offset > 0
    THEN [r EXCEPT !.remainder = From(r.remainder, r.offset), !.offset = 0]
    ELSE r

\* line 97: the call has to read from the source
MustRead(r) == Unshift(r).midRune \/ Len(Unshift(r).remainder) = 0

\* lines 100-111: the source delivered the bytes c
AfterRead(r, c) ==
    IF MustRead(r)
    THEN [Unshift(r) EXCEPT !.remainder = @ \o c, !.midRune = FALSE]
    ELSE Unshift(r)

\* a test for a partial rune that never finds one
PartialRune_Never(k) == k.rl < 0 /\ k.r = RuneError

\* line 118: ParseKey took no bytes and reported a rune error
PartialRune(k) == k.rl = 0 /\ k.r = RuneError

KeyReturn(r, kp, err, read) == [r |-> r, kp |-> kp, err |-> err, read |-> read]

\* lines 102-105: the Read failed
ReadKeypressFails(r) == KeyReturn(Unshift(r), Keypress(0, 0, ModNone, <<>>), "io", TRUE)

\* lines 116-127 with k what ParseKey returned for r.remainder
AfterParse(r, k) == [r EXCEPT !.remainder = ParseKeyBuffer(r.remainder, r.ForceParse),
                           !.midRune = @ \/ PartialRune(k),
                           !.offset = k.rl]

\* line 122: Raw is remainder[:i]
KeypressOf(r, k) == Keypress(k.r, k.rl, k.mod, SubSeq(r.remainder, 1, k.rl))

\* a return that compacts the buffer first
KeyParsed_Eager(r, k, read) ==
    KeyReturn(Unshift(AfterParse(r, k)), KeypressOf(AfterParse(r, k), k), "nil", read)

\* lines 113-127: the return after ParseKey gave k for r.remainder
KeyParsed(r, k, read) ==
    KeyReturn(AfterParse(r, k), KeypressOf(AfterParse(r, k), k), "nil", read)

\* lines 83-128 when the Read, if there is one, delivers the bytes c
ReadKeypress(r, c) ==
    KeyParsed(AfterRead(r, c),
              ParseKey(AfterRead(r, c).remainder, AfterRead(r, c).ForceParse),
              MustRead(r))

\* calls of ReadKeypress that read from the source
MaxKeyReads == 3

\* bytes the staging buffer holds in the model (inBuf has room for 256)
MaxPending == 12

\* Meta+F1 "\x1b[11;1~" with "abc" typed right behind it
MetaF1Abc == <<27, 91, 49, 49, 59, 49, 126, 97, 98, 99>>

\* what one Read delivers: a, D, "ab", ESC, "\x1b[", Left, the two bytes of
\* U+00E9 one at a time, Meta+F1 with more input behind it, and an Alt
\* sequence that never ends
KeyChunks ==
    {<<97>>, <<68>>, <<97, 98>>, <<27>>, <<27, 91>>, <<27, 91, 68>>, <<195>>, <<169>>,
     MetaF1Abc, <<27, 91, 49, 59, 51, 57, 57, 57, 57>>}

InitKeyReader ==
    /\ keyReader = NewKeyReader
    /\ keypress = Keypress(0, 0, ModNone, <<>>)
    /\ keyCall = [err |-> "none", read |-> FALSE, pending |-> <<>>]
    /\ nKeyReads = 0

SetForceParse ==
    /\ keyReader' = [keyReader EXCEPT !.ForceParse = ~@]
    /\ UNCHANGED <<keypress, keyCall, nKeyReads>>
    /\ UNCHANGED keyReaderFrame

\* a call that finds bytes in the buffer
ReadKeypressBuffered ==
    /\ ~MustRead(keyReader)
    /\ LET ret == ReadKeypress(keyReader, <<>>)
       IN  /\ keyReader' = ret.r
           /\ keypress' = ret.kp
           /\ keyCall' = [err |-> ret.err, read |-> ret.read,
                          pending |-> AfterRead(keyReader, <<>>).remainder]
    /\ UNCHANGED nKeyReads
    /\ UNCHANGED keyReaderFrame

\* a call that blocks in Read until the source delivers c
ReadKeypressRead ==
    \E c \in KeyChunks :
        /\ MustRead(keyReader)
        /\ nKeyReads < MaxKeyReads
        /\ Len(Unshift(keyReader).remainder) + Len(c) <= MaxPending
        /\ LET ret == ReadKeypress(keyReader, c)
           IN  /\ keyReader' = ret.r
               /\ keypress' = ret.kp
               /\ keyCall' = [err |-> ret.err, read |-> ret.read,
                              pending |-> AfterRead(keyReader, c).remainder]
        /\ nKeyReads' = nKeyReads + 1
        /\ UNCHANGED keyReaderFrame

\* a call whose Read returns an error
ReadKeypressError ==
    /\ MustRead(keyReader)
    /\ LET ret == ReadKeypressFails(keyReader)
       IN  /\ keyReader' = ret.r
           /\ keypress' = ret.kp
           /\ keyCall' = [err |-> ret.err, read |-> ret.read,
                          pending |-> ret.r.remainder]
    /\ UNCHANGED nKeyReads
    /\ UNCHANGED keyReaderFrame

NextKeyReader ==
    \/ SetForceParse
    \/ ReadKeypressBuffered
    \/ ReadKeypressRead
    \/ ReadKeypressError

----------------------------------------------------------------------------
(* History browsing, key by key.  A second Reader gets each key in a Read  *)
(* of its own, so that every ReadLine round handles one key: a, Enter, Up, *)
(* Down, or a paste of the sequence ESC [ Z, which no table knows.  Next   *)
(* to the Reader the model keeps what a user sees of the browsing: the     *)
(* lines entered so far, the line that was in progress when Up was first   *)
(* pressed, and how many Up and Down keys were pressed since.              *)

\* keys read by the browsing Reader
MaxBrowseKeys == 7

\* lines entered by the browsing Reader
MaxEntered == 2

UpKey == <<27, 91, 65>>
DownKey == <<27, 91, 66>>

\* a paste of ESC [ Z delivered in one Read
PastedUnknown == pasteStart \o <<27, 91, 90>> \o pasteEnd

BrowseChunks == {<<97>>, <<13>>, UpKey, DownKey, PastedUnknown}

\* not browsing: no Up pressed since the last edit
NotBrowsing(r) ==
    [run |-> "none", L |-> r.input, ups |-> 0, downs |-> 0,
     last |-> "none", before |-> r]

\* what the user has seen after the key c was read by the Reader r: run is
\* "ups" during the Up keys pressed from historyIndex = -1, "downs" during
\* the Down keys behind them, "none" after any other key
Browsed(b, r, c) ==
    IF c = UpKey /\ b.run = "none" /\ r.historyIndex = -1
    THEN [run |-> "ups", L |-> r.input, ups |-> 1, downs |-> 0, last |-> "up", before |-> r]
    ELSE IF c = UpKey /\ b.run = "ups"
    THEN [b EXCEPT !.ups = @ + 1, !.last = "up", !.before = r]
    ELSE IF c = DownKey /\ b.run \in {"ups", "downs"}
    THEN [b EXCEPT !.run = "downs", !.downs = @ + 1, !.last = "down", !.before = r]
    ELSE [NotBrowsing(r) EXCEPT !.last = IF c = UpKey THEN "up"
                                         ELSE IF c = DownKey THEN "down"
                                         ELSE "edit"]

InitBrowse ==
    /\ hReader = NewReader
    /\ hCall = NoCall
    /\ browse = NotBrowsing(NewReader)
    /\ entered = <<>>
    /\ nBrowseKeys = 0

\* Reader.NoHistory is set between two ReadLine calls, as ReadPassword does
SetNoHistory ==
    /\ hCall.pc = "idle"
    /\ hReader.historyIndex = -1
    /\ ~hReader.NoHistory
    /\ hReader' = [hReader EXCEPT !.NoHistory = TRUE]
    /\ browse' = NotBrowsing(hReader')
    /\ UNCHANGED <<hCall, entered, nBrowseKeys>>
    /\ UNCHANGED browseFrame

BrowseReadLine ==
    /\ hCall.pc = "idle"
    /\ LET round == ReadLineRound(hReader, [hCall EXCEPT !.lineIsPasted = hReader.pasteActive,
                                                         !.line = <<>>,
                                                         !.err = "nil",
                                                         !.allPasted = FALSE])
       IN  /\ hReader' = round.r
           /\ hCall' = round.c
    /\ UNCHANGED <<browse, entered, nBrowseKeys>>
    /\ UNCHANGED browseFrame

BrowseKey ==
    \E c \in BrowseChunks :
        /\ hCall.pc = "Read"
        /\ nBrowseKeys < MaxBrowseKeys
        /\ c = <<13>> => Len(entered) < MaxEntered
        /\ LET round == ReadLineRound([hReader EXCEPT !.remainder = @ \o c], hCall)
           IN  /\ hReader' = round.r
               /\ hCall' = round.c
               /\ entered' = IF round.c.pc = "idle" /\ round.c.err # "EOF" /\ ~hReader.NoHistory
                             THEN Append(entered, round.c.line)
                             ELSE entered
        /\ browse' = Browsed(browse, hReader, c)
        /\ nBrowseKeys' = nBrowseKeys + 1
        /\ UNCHANGED browseFrame

NextBrowse ==
    \/ SetNoHistory
    \/ BrowseReadLine
    \/ BrowseKey

----------------------------------------------------------------------------
(* handleKey with an AutoCompleteCallback.  A Go string is the sequence of *)
(* its code points; its bytes are their UTF-8 encodings.  The callback is  *)
(* user code: what it answers is an input of the step.  A third Reader     *)
(* gets its keys one by one; completion records how the callback was       *)
(* called for the last key.                                                *)

\* the UTF-8 encoding of the code point c
EncodeRune(c) ==
    IF c < 128 THEN <<c>>
    ELSE IF c < 2048 THEN <<192 + (c \div 64), 128 + (c % 64)>>
    ELSE IF c < 65536 THEN <<224 + (c \div 4096), 128 + ((c \div 64) % 64), 128 + (c % 64)>>
    ELSE <<240 + (c \div 262144), 128 + ((c \div 4096) % 64), 128 + ((c \div 64) % 64),
           128 + (c % 64)>>

\* []byte(s)
RECURSIVE Bytes(_)
Bytes(s) == IF Len(s) = 0 THEN <<>> ELSE EncodeRune(Head(s)) \o Bytes(Tail(s))

\* utf8.RuneCount(p): every full rune and every byte of a broken one counts
RECURSIVE RuneCount(_)
RuneCount(p) ==
    IF Len(p) = 0 THEN 0 ELSE 1 + RuneCount(From(p, DecodeRune(p).size))

\* Line.Split: the strings left of the cursor and from the cursor on
Split(l) ==
    [prefix |-> RunesToString(Slice(l.Text, 0, l.Pos)),
     suffix |-> RunesToString(Slice(l.Text, l.Pos, Len(l.Text)))]

\* the arguments handleKey passes to the callback (reader.go:250-251)
CallbackArgs(i, key) ==
    [line |-> Split(i).prefix \o Split(i).suffix, pos |-> Len(Bytes(Split(i).prefix)),
     key |-> key]

\* the callback was not called
NotCalled == [called |-> FALSE, key |-> 0, args |-> CallbackArgs(NewLine, 0),
              before |-> NewLine, paste |-> FALSE]

\* the default case of handleKey with a callback that answered a
\* (newLine, newPos, ok); a newPos past the bytes of newLine panics
handleKeyCompleting(r, key, a) ==
    IF a.ok
    THEN IF a.newPos > Len(Bytes(a.newLine))
         THEN [r |-> r, panicked |-> TRUE]
         ELSE [r |-> [r EXCEPT !.input = Set(r.input, a.newLine,
                                             RuneCount(Slice(Bytes(a.newLine), 0, a.newPos)))],
               panicked |-> FALSE]
    ELSE [r |-> handleKeyDefault(r, key), panicked |-> FALSE]

\* the keys handleKey's switch sends to its default case
IsDefaultKey(r, key) ==
    /\ ~(r.pasteActive /\ key # keyEnter)
    /\ key \notin EditKeys \cup {keyUp, keyDown, keyEnter}

\* keys handled by the completing Reader
MaxCompleteKeys == 3

\* a, U+00E9, an unknown key, and keys with a case of their own
CompleteKeys == {97, 233, keyUnknownKey, keyBackspace, keyLeft, keyUp, keyEnter, keyClearScreen}

\* what the callback may answer: no completion, or a new line "a" U+00E9
\* with the cursor at one of its byte offsets
Answers ==
    {[ok |-> FALSE, newLine |-> <<>>, newPos |-> 0]}
    \cup {[ok |-> TRUE, newLine |-> <<97, 233>>, newPos |-> p] : p \in 0..4}

InitComplete ==
    /\ cReader = NewReader
    /\ completion = NotCalled
    /\ nCompleteKeys = 0

\* ReadLine on keyPasteStart and keyPasteEnd (reader.go:302-311)
CompletePaste ==
    /\ completion' = [completion EXCEPT !.key = 0, !.called = FALSE]
    /\ cReader' = [cReader EXCEPT !.pasteActive = ~@]
    /\ UNCHANGED nCompleteKeys
    /\ UNCHANGED completeFrame

\* a key with a case of its own, or a key of a paste
CompleteOwnKey ==
    \E key \in CompleteKeys :
        /\ nCompleteKeys < MaxCompleteKeys
        /\ ~IsDefaultKey(cReader, key)
        /\ cReader' = handleKey(cReader, key).r
        /\ completion' = [NotCalled EXCEPT !.key = key, !.before = cReader.input,
                                           !.paste = cReader.pasteActive]
        /\ nCompleteKeys' = nCompleteKeys + 1
        /\ UNCHANGED completeFrame

\* a key of the default case: the callback is called and answers a
CompleteDefaultKey ==
    \E key \in CompleteKeys, a \in Answers :
        /\ nCompleteKeys < MaxCompleteKeys
        /\ IsDefaultKey(cReader, key)
        /\ ~handleKeyCompleting(cReader, key, a).panicked
        /\ cReader' = handleKeyCompleting(cReader, key, a).r
        /\ completion' = [called |-> TRUE, key |-> key,
                          args |-> CallbackArgs(cReader.input, key),
                          before |-> cReader.input, paste |-> FALSE]
        /\ nCompleteKeys' = nCompleteKeys + 1
        /\ UNCHANGED completeFrame

NextComplete ==
    \/ CompletePaste
    \/ CompleteOwnKey
    \/ CompleteDefaultKey

----------------------------------------------------------------------------
(* ReadLine next to an observer thread.  A fourth Reader runs ReadLine     *)
(* statement by statement on one thread while a second thread calls        *)
(* LinePos and Pos.  mutex is the Reader's sync.RWMutex: a writer that     *)
(* holds it, a writer that waits for the readers to leave (and keeps new   *)
(* readers out), and the number of readers.                                *)

NewMutex == [writer |-> FALSE, pending |-> FALSE, readers |-> 0]

\* RLock returns only when no writer holds or waits for the mutex
CanRLock(m) == ~m.writer /\ ~m.pending

RLock(m) == [m EXCEPT !.readers = @ + 1]

RUnlock(m) == [m EXCEPT !.readers = @ - 1]

\* Lock with the wait for the readers left out
CanLock_Always(m) == TRUE

\* Lock returns only when no one else holds the mutex
CanLock(m) == ~m.writer /\ m.readers = 0

Lock(m) == [m EXCEPT !.writer = TRUE, !.pending = FALSE]

\* an Unlock that keeps the mutex
Unlock_Kept(m) == m

Unlock(m) == [m EXCEPT !.writer = FALSE]

\* The values r.input passes through while handleKey works on key, before
\* it reaches its last value: the writes of Pos and of Text are separate
\* statements of the Line methods (the writes into Text of one method are
\* taken together).
Partway(r, key) ==
    IF r.pasteActive /\ key # keyEnter
    THEN <<[AddKeyToLine(r.input, key) EXCEPT !.Pos = r.input.Pos]>>
    ELSE IF key = keyBackspace /\ r.input.Pos > 0
    THEN <<[r.input EXCEPT !.Pos = @ - 1]>>
    ELSE IF key = keyCtrlD /\ r.input.Pos < Len(r.input.Text)
    THEN <<MoveRight(r.input), r.input>>
    ELSE IF key = keyUp /\ fetchPreviousHistory(r).ok
    THEN <<[fetchPreviousHistory(r).r.input EXCEPT !.Pos = r.input.Pos]>>
    ELSE IF key = keyDown /\ fetchNextHistory(r).input # r.input
    THEN <<[fetchNextHistory(r).input EXCEPT !.Pos = r.input.Pos]>>
    ELSE IF key = keyEnter
    THEN <<[Clear(r.input) EXCEPT !.Pos = r.input.Pos]>>
    ELSE IF key \in EditKeys \/ ~isPrintable(key) \/ Len(r.input.Text) = r.MaxLineLength
    THEN <<>>
    ELSE <<[AddKeyToLine(r.input, key) EXCEPT !.Pos = r.input.Pos]>>

\* what LinePos reads of an Input
Snapshot(i) == [line |-> String(i), pos |-> i.Pos]

\* chunks the byte source delivers to this Reader
MaxLockReads == 3

\* a, Left, Ctrl-D, Backspace, Up, Enter, the half of an escape sequence
LockChunks == {<<97>>, <<27, 91, 68>>, <<4>>, <<127>>, <<27, 91, 65>>, <<13>>, <<27, 91>>}

\* the ReadLine thread outside ReadLine
NotReading == [pc |-> "idle", rest |-> <<>>, key |-> 0, from |-> NewLine, steps |-> <<>>]

\* the observer thread outside LinePos and Pos
NotObserving == [pc |-> "idle", fn |-> "LinePos", line |-> <<>>, pos |-> 0]

InitLocked ==
    /\ lReader = NewReader
    /\ mutex = NewMutex
    /\ lk = NotReading
    /\ obs = NotObserving
    /\ committed = {Snapshot(NewLine)}
    /\ nLockReads = 0

\* the caller calls ReadLine: rest := r.remainder
LockedReadLine ==
    /\ lk.pc = "idle"
    /\ lk' = [lk EXCEPT !.pc = "parse", !.rest = lReader.remainder]
    /\ UNCHANGED <<lReader, mutex, obs, committed, nLockReads>>
    /\ UNCHANGED lockedFrame

\* key, rest = bytesToKey(rest, r.pasteActive); without a whole key the
\* inner loop ends, the remainder is stored and ReadLine goes to Read
LockedParse ==
    /\ lk.pc = "parse"
    /\ IF bytesToKey(lk.rest, lReader.pasteActive).key = RuneError
       THEN /\ lk' = [lk EXCEPT !.pc = "Read",
                                !.rest = bytesToKey(lk.rest, lReader.pasteActive).rest]
            /\ lReader' = [lReader EXCEPT
                               !.remainder = bytesToKey(lk.rest, lReader.pasteActive).rest]
       ELSE /\ lk' = [lk EXCEPT !.pc = "RLock",
                                !.key = bytesToKey(lk.rest, lReader.pasteActive).key,
                                !.rest = bytesToKey(lk.rest, lReader.pasteActive).rest]
            /\ UNCHANGED lReader
    /\ UNCHANGED <<mutex, obs, committed, nLockReads>>
    /\ UNCHANGED lockedFrame

\* r.m.RLock() before the read of the line length
LockedRLock ==
    /\ lk.pc = "RLock"
    /\ CanRLock(mutex)
    /\ mutex' = RLock(mutex)
    /\ lk' = [lk EXCEPT !.pc = "RUnlock"]
    /\ UNCHANGED <<lReader, obs, committed, nLockReads>>
    /\ UNCHANGED lockedFrame

\* lineLen is read, r.m.RUnlock(), and the tests of the key that ReadLine
\* makes itself: Ctrl-D on an empty line returns, the paste brackets switch
\* pasteActive, every other key goes to handleKey
LockedRUnlock ==
    /\ lk.pc = "RUnlock"
    /\ mutex' = RUnlock(mutex)
    /\ IF ~lReader.pasteActive /\ lk.key = keyCtrlD /\ Len(lReader.input.Text) = 0
       THEN lk' = [lk EXCEPT !.pc = "idle"] /\ UNCHANGED lReader
       ELSE IF ~lReader.pasteActive /\ lk.key = keyPasteStart
       THEN lk' = [lk EXCEPT !.pc = "parse"] /\ lReader' = [lReader EXCEPT !.pasteActive = TRUE]
       ELSE IF lReader.pasteActive /\ lk.key = keyPasteEnd
       THEN lk' = [lk EXCEPT !.pc = "parse"] /\ lReader' = [lReader EXCEPT !.pasteActive = FALSE]
       ELSE lk' = [lk EXCEPT !.pc = "Lock"] /\ UNCHANGED lReader
    /\ UNCHANGED <<obs, committed, nLockReads>>
    /\ UNCHANGED lockedFrame

\* handleKey calls r.m.Lock(): from now on no new reader gets in
LockedLock ==
    /\ lk.pc = "Lock"
    /\ mutex' = [mutex EXCEPT !.pending = TRUE]
    /\ lk' = [lk EXCEPT !.pc = "Locking"]
    /\ UNCHANGED <<lReader, obs, committed, nLockReads>>
    /\ UNCHANGED lockedFrame

\* r.m.Lock() returns
LockedLocked ==
    /\ lk.pc = "Locking"
    /\ CanLock(mutex)
    /\ mutex' = Lock(mutex)
    /\ lk' = [lk EXCEPT !.pc = "handleKey", !.from = lReader.input,
                        !.steps = Partway(lReader, lk.key)]
    /\ UNCHANGED <<lReader, obs, committed, nLockReads>>
    /\ UNCHANGED lockedFrame

\* one write of handleKey to r.input; with the last one the Reader is as
\* handleKey leaves it
LockedWrite ==
    /\ lk.pc = "handleKey"
    /\ IF Len(lk.steps) > 0
       THEN /\ lReader' = [lReader EXCEPT !.input = Head(lk.steps)]
            /\ lk' = [lk EXCEPT !.steps = Tail(@)]
       ELSE /\ lReader' = handleKey([lReader EXCEPT !.input = lk.from], lk.key).r
            /\ lk' = [lk EXCEPT !.pc = "Unlock"]
    /\ UNCHANGED <<mutex, obs, committed, nLockReads>>
    /\ UNCHANGED lockedFrame

\* the deferred r.m.Unlock() and the return of handleKey: with a line the
\* remainder is stored, the line is added to the history and ReadLine
\* returns, without one the inner loop goes on
LockedUnlock ==
    /\ lk.pc = "Unlock"
    /\ mutex' = Unlock(mutex)
    /\ committed' = committed \cup {Snapshot(lReader.input)}
    /\ IF lk.key = keyEnter
       THEN /\ lReader' = [lReader EXCEPT
                               !.remainder = lk.rest,
                               !.historyIndex = IF lReader.NoHistory THEN @ ELSE -1,
                               !.history = IF lReader.NoHistory THEN @
                                           ELSE Add(@, String(lk.from))]
            /\ lk' = [lk EXCEPT !.pc = "idle"]
       ELSE /\ lk' = [lk EXCEPT !.pc = "parse"]
            /\ UNCHANGED lReader
    /\ UNCHANGED <<obs, nLockReads>>
    /\ UNCHANGED lockedFrame

\* r.c.Read returns a chunk behind the remainder
LockedRead ==
    \E c \in LockChunks :
        /\ lk.pc = "Read"
        /\ nLockReads < MaxLockReads
        /\ lReader' = [lReader EXCEPT !.remainder = @ \o c]
        /\ lk' = [lk EXCEPT !.pc = "parse", !.rest = lReader.remainder \o c]
        /\ nLockReads' = nLockReads + 1
        /\ UNCHANGED <<mutex, obs, committed>>
        /\ UNCHANGED lockedFrame

\* r.c.Read returns an error and ReadLine returns it
LockedReadError ==
    /\ lk.pc = "Read"
    /\ lk' = [lk EXCEPT !.pc = "idle"]
    /\ UNCHANGED <<lReader, mutex, obs, committed, nLockReads>>
    /\ UNCHANGED lockedFrame

\* the observer calls LinePos or Pos
ObserverCall ==
    \E fn \in {"LinePos", "Pos"} :
        /\ obs.pc \in {"idle", "done"}
        /\ obs' = [NotObserving EXCEPT !.pc = "RLock", !.fn = fn]
        /\ UNCHANGED <<lReader, mutex, lk, committed, nLockReads>>
        /\ UNCHANGED lockedFrame

\* r.m.RLock() of LinePos and Pos
ObserverRLock ==
    /\ obs.pc = "RLock"
    /\ CanRLock(mutex)
    /\ mutex' = RLock(mutex)
    /\ obs' = [obs EXCEPT !.pc = IF obs.fn = "LinePos" THEN "String" ELSE "Pos"]
    /\ UNCHANGED <<lReader, lk, committed, nLockReads>>
    /\ UNCHANGED lockedFrame

\* r.input.String()
ObserverString ==
    /\ obs.pc = "String"
    /\ obs' = [obs EXCEPT !.pc = "Pos", !.line = String(lReader.input)]
    /\ UNCHANGED <<lReader, mutex, lk, committed, nLockReads>>
    /\ UNCHANGED lockedFrame

\* r.input.Pos, the deferred r.m.RUnlock() and the return
ObserverPos ==
    /\ obs.pc = "Pos"
    /\ obs' = [obs EXCEPT !.pc = "done", !.pos = lReader.input.Pos]
    /\ mutex' = RUnlock(mutex)
    /\ UNCHANGED <<lReader, lk, committed, nLockReads>>
    /\ UNCHANGED lockedFrame

\* the steps of the ReadLine thread that wait for no one but the mutex
LockedStep ==
    \/ LockedParse
    \/ LockedRLock
    \/ LockedRUnlock
    \/ LockedLock
    \/ LockedLocked
    \/ LockedWrite
    \/ LockedUnlock

\* the steps of LinePos and Pos
ObserverStep ==
    \/ ObserverRLock
    \/ ObserverString
    \/ ObserverPos

NextLocked ==
    \/ LockedReadLine
    \/ LockedStep
    \/ LockedRead
    \/ LockedReadError
    \/ ObserverCall
    \/ ObserverStep

----------------------------------------------------------------------------
(* The Prompt: a Reader whose line is drawn on a terminal after each key.  *)
(* pReader is the embedded Reader and prompt the Prompt's own fields.  The *)
(* terminal is the row of cells right of the prompt text and a cursor      *)
(* column, counted from the first of these cells (a column below 0 is in   *)
(* the prompt text); it takes the bytes the Prompt writes.  The Reader of  *)
(* prompt.go reports each key it has handled to afterKeyPress; that Reader *)
(* and runesDiffer are not part of the sources and follow the description. *)

\* strconv.Itoa of a positive number, as bytes
RECURSIVE Itoa(_)
Itoa(n) == IF n < 10 THEN <<48 + n>> ELSE Itoa(n \div 10) \o <<48 + (n % 10)>>

\* the bytes moveCursor writes for a move by dx # 0
MoveSeq(dx, last) ==
    <<27, 91>> \o (IF dx = 1 THEN <<>> ELSE IF dx < 10 THEN <<48 + dx>> ELSE Itoa(dx))
               \o <<last>>

\* moveCursor writing a sequence also for a move by nothing
moveCursor_Always(p, x) ==
    [p |-> [p EXCEPT !.lastCurPos = x],
     out |-> IF x - p.lastCurPos >= 0 THEN MoveSeq(x - p.lastCurPos, 67)
             ELSE MoveSeq(p.lastCurPos - x, 68)]

\* moveCursor: the Prompt it leaves and the bytes it writes
moveCursor(p, x) ==
    IF x - p.lastCurPos = 0 THEN [p |-> p, out |-> <<>>]
    ELSE [p |-> [p EXCEPT !.lastCurPos = x],
          out |-> IF x - p.lastCurPos > 0 THEN MoveSeq(x - p.lastCurPos, 67)
                  ELSE MoveSeq(p.lastCurPos - x, 68)]

\* the first index at which a and b differ, a rune the other lacks being a
\* difference; -1 when they are equal
runesDiffer(a, b) ==
    IF \E i \in 1..Len(a) : Len(b) < i \/ a[i] # b[i]
    THEN (CHOOSE i \in 1..Len(a) :
              /\ Len(b) < i \/ a[i] # b[i]
              /\ \A j \in 1..(i - 1) : Len(b) >= j /\ a[j] = b[j]) - 1
    ELSE IF Len(b) > Len(a) THEN Len(a)
    ELSE -1

\* n blanks, none for n <= 0
Padding(n) == [k \in 1..n |-> 32]

\* the loop "too far left" of writeChanges
RECURSIVE PromptScrollLeft(_, _, _)
PromptScrollLeft(off, loc, by) ==
    IF loc < 0 THEN PromptScrollLeft(off - by, loc + by, by)
    ELSE [off |-> IF off < 0 THEN 0 ELSE off, loc |-> loc]

\* the loop "too far right" of writeChanges, behind the loop to the left
RECURSIVE PromptScrollRight(_, _, _)
PromptScrollRight(l, by, w) ==
    IF l.loc >= w THEN PromptScrollRight([off |-> l.off + by, loc |-> l.loc - by], by, w)
    ELSE l.off

\* the ScrollOffset writeChanges settles on for the Input i
PromptScrolled(p, i) ==
    IF PromptScrollRight(PromptScrollLeft(p.ScrollOffset, i.Pos - p.ScrollOffset, p.ScrollBy),
                         p.ScrollBy, p.InputWidth) + p.InputWidth >= p.MaxLineLength
    THEN p.MaxLineLength - p.InputWidth
    ELSE PromptScrollRight(PromptScrollLeft(p.ScrollOffset, i.Pos - p.ScrollOffset, p.ScrollBy),
                           p.ScrollBy, p.InputWidth)

\* where the visible part ends
VisibleEnd(p, i) ==
    IF p.ScrollOffset + p.InputWidth > Len(i.Text) THEN Len(i.Text)
    ELSE p.ScrollOffset + p.InputWidth

\* behind moveCursor(index), m: the runes from index on and the blanks for
\* a shorter line are written
WriteTail(m, visible, index) ==
    [p |-> [m.p EXCEPT
                !.lastCurPos = @ + (Len(visible) - index)
                                 + Len(Padding(Len(m.p.lastOutput) - Len(visible))),
                !.lastOutput = visible],
     out |-> m.out \o Bytes(RunesToString(From(visible, index)
                                          \o Padding(Len(m.p.lastOutput) - Len(visible))))]

\* the redraw of writeChanges for the visible runes
Rewrite(p, visible, index) ==
    IF index >= 0 THEN WriteTail(moveCursor(p, index), visible, index)
    ELSE [p |-> p, out |-> <<>>]

\* the closing moveCursor of writeChanges behind the redraw w
Park(w, x) == [p |-> moveCursor(w.p, x).p, out |-> w.out \o moveCursor(w.p, x).out]

\* writeChanges with the ScrollOffset settled in p
writeVisible(p, i) ==
    IF p.ScrollOffset < 0 \/ p.ScrollOffset > VisibleEnd(p, i) \/ VisibleEnd(p, i) < 0
    THEN [p |-> p, out |-> <<>>, panicked |-> TRUE]
    ELSE [p |-> Park(Rewrite(p, Slice(i.Text, p.ScrollOffset, VisibleEnd(p, i)),
                             runesDiffer(p.lastOutput,
                                         Slice(i.Text, p.ScrollOffset, VisibleEnd(p, i)))),
                     i.Pos - p.ScrollOffset).p,
          out |-> Park(Rewrite(p, Slice(i.Text, p.ScrollOffset, VisibleEnd(p, i)),
                               runesDiffer(p.lastOutput,
                                           Slice(i.Text, p.ScrollOffset, VisibleEnd(p, i)))),
                       i.Pos - p.ScrollOffset).out,
          panicked |-> FALSE]

\* writeChanges: the Prompt it leaves, the bytes it writes, and whether the
\* slice of the line went out of range
writeChanges(p, i) == writeVisible([p EXCEPT !.ScrollOffset = PromptScrolled(p, i)], i)

\* afterKeyPress: nothing is drawn for Enter
afterKeyPress(p, key, i) ==
    IF key # keyEnter THEN writeChanges(p, i)
    ELSE [p |-> p, out |-> <<>>, panicked |-> FALSE]

\* The terminal.  cells are the cells written so far, cursor the column, low
\* the lowest column a rune was stored in since low was last set to -1.
NewScreen == [cells |-> <<>>, cursor |-> 0, low |-> -1]

\* the cells with the rune c stored in column x; a column below 0 is none
\* of them
Put(cells, x, c) ==
    IF x < 0 THEN cells
    ELSE
    [k \in 1..(IF x + 1 > Len(cells) THEN x + 1 ELSE Len(cells)) |->
        IF k = x + 1 THEN c ELSE IF k <= Len(cells) THEN cells[k] ELSE 32]

\* the number of digits at the head of b
RECURSIVE Digits(_)
Digits(b) ==
    IF Len(b) > 0 /\ Head(b) >= 48 /\ Head(b) <= 57 THEN 1 + Digits(Tail(b)) ELSE 0

\* the number the digits d spell, 1 for none
RECURSIVE Count(_)
Count(d) ==
    IF Len(d) = 0 THEN 1
    ELSE IF Len(d) = 1 THEN d[1] - 48
    ELSE 10 * Count(SubSeq(d, 1, Len(d) - 1)) + (d[Len(d)] - 48)

\* the screen moved by the sequence ESC [ n C or ESC [ n D
Moved(s, final, by) ==
    IF final = 67 THEN [s EXCEPT !.cursor = @ + by]
    ELSE IF final = 68 THEN [s EXCEPT !.cursor = @ - by]
    ELSE s

\* the screen after the bytes b
RECURSIVE Apply(_, _)
Apply(s, b) ==
    IF Len(b) = 0 THEN s
    ELSE IF Head(b) = 27
    THEN Apply(Moved(s, At(b, 2 + Digits(From(b, 2))),
                     Count(Slice(b, 2, 2 + Digits(From(b, 2))))),
               From(b, 3 + Digits(From(b, 2))))
    ELSE Apply([cells |-> Put(s.cells, s.cursor, DecodeRune(b).r),
                cursor |-> s.cursor + 1,
                low |-> IF s.low = -1 \/ s.cursor < s.low THEN s.cursor ELSE s.low],
               From(b, DecodeRune(b).size))

\* NewPrompt: InputWidth is the Reader's MaxLineLength of that moment.
\* MaxLineLength is the field of the embedded Reader, seen through the Prompt.
NewPromptFields ==
    [lastOutput |-> <<>>, lastCurPos |-> 0, InputWidth |-> NewReader.MaxLineLength,
     ScrollOffset |-> 0, ScrollBy |-> ScrollBy, MaxLineLength |-> NewReader.MaxLineLength]

\* no key drawn yet
NotDrawn == [key |-> 0, out |-> <<>>, lastOutput |-> <<>>, cursor |-> 0, panicked |-> FALSE]

\* keys typed to the Prompt
MaxPromptKeys == 4

\* widths of the input area, steps of the scroll and line limits a caller sets
PromptWidths == {2, 3}

PromptScrollBys == {1, 3}

PromptLimits == {4}

\* a, b, and the keys that move the cursor or erase
PromptKeys == {97, 98, keyLeft, keyRight, keyHome, keyBackspace, keyEnter}

InitPrompt ==
    /\ pReader = NewReader
    /\ prompt = NewPromptFields
    /\ screen = NewScreen
    /\ drawn = NotDrawn
    /\ pCall = "idle"
    /\ nPromptKeys = 0

\* the caller sets the width of the input area
SetPromptInputWidth ==
    \E w \in PromptWidths :
        /\ pCall = "idle" /\ nPromptKeys = 0
        /\ prompt' = [prompt EXCEPT !.InputWidth = w]
        /\ UNCHANGED <<pReader, screen, drawn, pCall, nPromptKeys>>
        /\ UNCHANGED promptFrame

\* the caller sets the step of the scroll
SetPromptScrollBy ==
    \E by \in PromptScrollBys :
        /\ pCall = "idle" /\ nPromptKeys = 0
        /\ prompt' = [prompt EXCEPT !.ScrollBy = by]
        /\ UNCHANGED <<pReader, screen, drawn, pCall, nPromptKeys>>
        /\ UNCHANGED promptFrame

\* the caller sets the line limit of the embedded Reader
SetPromptMaxLineLength ==
    \E n \in PromptLimits :
        /\ pCall = "idle" /\ nPromptKeys = 0
        /\ pReader' = [pReader EXCEPT !.MaxLineLength = n]
        /\ prompt' = [prompt EXCEPT !.MaxLineLength = n]
        /\ UNCHANGED <<screen, drawn, pCall, nPromptKeys>>
        /\ UNCHANGED promptFrame

\* Prompt.ReadLine up to the Reader's ReadLine: the prompt text is written
\* and the input area right of it is a fresh row
PromptReadLine ==
    /\ pCall = "idle"
    /\ prompt' = [prompt EXCEPT !.ScrollOffset = 0, !.lastOutput = <<>>, !.lastCurPos = 0]
    /\ screen' = NewScreen
    /\ drawn' = NotDrawn
    /\ pCall' = "ReadLine"
    /\ UNCHANGED <<pReader, nPromptKeys>>
    /\ UNCHANGED promptFrame

\* the Reader handles a key and reports it to afterKeyPress; Enter ends
\* ReadLine with the line, which goes to the history
PromptKey ==
    \E key \in PromptKeys :
        /\ pCall = "ReadLine"
        /\ nPromptKeys < MaxPromptKeys
        /\ nPromptKeys' = nPromptKeys + 1
        /\ prompt' = afterKeyPress(prompt, key, handleKey(pReader, key).r.input).p
        /\ drawn' = [key |-> key,
                     out |-> afterKeyPress(prompt, key, handleKey(pReader, key).r.input).out,
                     lastOutput |-> prompt.lastOutput,
                     cursor |-> screen.cursor,
                     panicked |->
                         afterKeyPress(prompt, key, handleKey(pReader, key).r.input).panicked]
        /\ screen' = Apply([screen EXCEPT !.low = -1], drawn'.out)
        /\ pReader' = IF key = keyEnter
                      THEN [handleKey(pReader, key).r EXCEPT
                                !.historyIndex = -1,
                                !.history = Add(@, handleKey(pReader, key).line)]
                      ELSE handleKey(pReader, key).r
        /\ pCall' = IF drawn'.panicked THEN "panic"
                    ELSE IF key = keyEnter THEN "idle" ELSE "ReadLine"
        /\ UNCHANGED promptFrame

NextPrompt ==
    \/ SetPromptInputWidth
    \/ SetPromptScrollBy
    \/ SetPromptMaxLineLength
    \/ PromptReadLine
    \/ PromptKey

----------------------------------------------------------------------------
(* ReadPassword.  A Reader of its own is called with ReadLine or with      *)
(* ReadPassword; its caller may set NoHistory between two calls.  wCall    *)
(* is the call as in the other Readers, with the function called and the   *)
(* oldNoHistory of ReadPassword; wAtCall is the Reader as the call found   *)
(* it and wLast the Reader and the chunk the last round started from.      *)

\* chunks read by this Reader
MaxPasswordReads == 4

\* a, Enter, Ctrl-D, Up, and a and Enter in one read
PasswordChunks == {<<97>>, <<13>>, <<4>>, <<27, 91, 65>>, <<97, 13>>}

\* no call yet
NoPasswordCall == [fn |-> "ReadLine", oldNoHistory |-> FALSE] @@ NoCall

\* ReadPassword behind ReadLine without "r.NoHistory = oldNoHistory"
EndCall_Keep(r, c) == r

\* the Reader when the call c has returned: ReadPassword puts NoHistory back
EndCall(r, c) ==
    IF c.fn = "ReadPassword" THEN [r EXCEPT !.NoHistory = c.oldNoHistory] ELSE r

\* the Reader and the call after a round of ReadLine, ended if it returned
Returned(round) ==
    [r |-> IF round.c.pc = "idle" THEN EndCall(round.r, round.c) ELSE round.r,
     c |-> round.c]

InitPassword ==
    /\ wReader = NewReader
    /\ wCall = NoPasswordCall
    /\ wAtCall = NewReader
    /\ wLast = [r |-> NewReader, c |-> <<>>]
    /\ nPasswordReads = 0

\* the caller, done with the last call, sets or clears the public field
\* NoHistory
SetPasswordNoHistory ==
    /\ wCall.pc = "idle"
    /\ wReader' = [wReader EXCEPT !.NoHistory = ~@]
    /\ wCall' = NoPasswordCall
    /\ UNCHANGED <<wAtCall, wLast, nPasswordReads>>
    /\ UNCHANGED passwordFrame

\* ReadLine or ReadPassword is called and runs to its first Read or return
CallPassword ==
    \E fn \in {"ReadLine", "ReadPassword"} :
        /\ wCall.pc = "idle"
        /\ nPasswordReads < MaxPasswordReads
        /\ wAtCall' = wReader
        /\ wLast' = [r |-> [wReader EXCEPT !.NoHistory = (fn = "ReadPassword") \/ @],
                     c |-> <<>>]
        /\ LET round == Returned(ReadLineRound(
                            wLast'.r,
                            [wCall EXCEPT !.fn = fn, !.oldNoHistory = wReader.NoHistory,
                                          !.lineIsPasted = wReader.pasteActive,
                                          !.line = <<>>, !.err = "nil",
                                          !.allPasted = FALSE]))
           IN  /\ wReader' = round.r
               /\ wCall' = round.c
        /\ UNCHANGED nPasswordReads
        /\ UNCHANGED passwordFrame

\* r.c.Read returns a chunk and ReadLine runs to its next Read or return
PasswordRead ==
    \E c \in PasswordChunks :
        /\ wCall.pc = "Read"
        /\ nPasswordReads < MaxPasswordReads
        /\ wLast' = [r |-> wReader, c |-> c]
        /\ LET round == Returned(ReadLineRound([wReader EXCEPT !.remainder = @ \o c], wCall))
           IN  /\ wReader' = round.r
               /\ wCall' = round.c
        /\ nPasswordReads' = nPasswordReads + 1
        /\ UNCHANGED wAtCall
        /\ UNCHANGED passwordFrame

\* r.c.Read returns an error, and so does the call
PasswordReadFails ==
    /\ wCall.pc = "Read"
    /\ wLast' = [r |-> wReader, c |-> <<>>]
    /\ wCall' = [wCall EXCEPT !.pc = "idle", !.line = <<>>, !.err = "io"]
    /\ wReader' = EndCall(wReader, wCall)
    /\ UNCHANGED <<wAtCall, nPasswordReads>>
    /\ UNCHANGED passwordFrame

NextPassword ==
    \/ SetPasswordNoHistory
    \/ CallPassword
    \/ PasswordRead
    \/ PasswordReadFails

----------------------------------------------------------------------------
(* The staging buffer.  A Reader's source sends ESC [ and then digits, in  *)
(* runs of one and of DigitRun, and may end the sequence with '~'.  Read   *)
(* is handed r.inBuf[len(r.remainder):]: it stores as many bytes as there  *)
(* is room for, and none when the pending bytes fill inBuf.                *)

\* len(r.inBuf)
inBufSize == 256

\* digits the source sends in one Read
DigitRun == 50

DigitsRun(n) == [i \in 1..n |-> Digit(1)]

\* what the source has to send while the Reader has the bytes pending
StagingChunks(pending) ==
    IF pending = <<>> THEN {<<ChESC, ChLBracket>>}
    ELSE {DigitsRun(1), DigitsRun(DigitRun), <<ChTilde>>}

\* lines 338-341: the bytes of c that Read stores in readBuf
Stored(r, c) ==
    IF Len(c) <= inBufSize - Len(r.remainder) THEN c
    ELSE SubSeq(c, 1, inBufSize - Len(r.remainder))

InitStaging ==
    /\ sReader = NewReader
    /\ sCall = NoCall

StagingCall ==
    /\ sCall.pc = "idle"
    /\ LET round == ReadLineRound(sReader, [sCall EXCEPT !.lineIsPasted = sReader.pasteActive,
                                                         !.line = <<>>,
                                                         !.err = "nil",
                                                         !.allPasted = FALSE])
       IN  /\ sReader' = round.r
           /\ sCall' = round.c
    /\ UNCHANGED stagingFrame

\* lines 336-347 and the round of the loop that follows
StagingRead ==
    \E c \in StagingChunks(sReader.remainder) :
        /\ sCall.pc = "Read"
        /\ LET round == ReadLineRound([sReader EXCEPT !.remainder = @ \o Stored(sReader, c)],
                                      sCall)
           IN  /\ sReader' = round.r
               /\ sCall' = round.c
        /\ UNCHANGED stagingFrame

NextStaging ==
    \/ StagingCall
    \/ StagingRead

----------------------------------------------------------------------------
(* Two KeyReaders, ForceParse off, whose sources send the same bytes: the  *)
(* first gets them in one Read, the second in Reads that cut the bytes     *)
(* anywhere.  Each keeps the (key, modifier, size) of the Keypresses of    *)
(* size > 0 that its ReadKeypress calls returned.                          *)

\* "\x18@s" + ESC O: the meta prefix and the start of F1..F4
MetaSS3 == MetaPrefix \o <<ChESC, ChO>>

Streams ==
    {<<97, 98>>,                        \* a b
     <<27, 91, 68, 97>>,                \* Left a
     <<195, 169, 97>>,                  \* e-acute a
     <<27, 27, 91, 68>>,                \* ESC ESC [ D
     <<27, 91, 49, 59, 51, 68>>,        \* ESC [ 1 ; 3 D
     <<27, 79, 80>>,                    \* F1 as ESC O P
     <<27, 91, 53, 126>>,               \* PgUp
     <<97, 27, 91, 65>>,                \* a Up
     MetaSS3}

NoStream == <<>>

KeyOf(kp) == <<kp.Key, kp.Modifier, kp.Size>>

\* the keys so far and the Keypress kp
Seen(keys, kp) == IF kp.Size > 0 THEN Append(keys, KeyOf(kp)) ELSE keys

InitChunking ==
    /\ stream = NoStream
    /\ unsent = <<>>
    /\ oneReader = NewKeyReader
    /\ oneKeys = <<>>
    /\ cutReader = NewKeyReader
    /\ cutKeys = <<>>

\* the terminal has the bytes s to send
ChooseStream ==
    \E s \in Streams :
        /\ stream = NoStream
        /\ stream' = s
        /\ unsent' = s
        /\ UNCHANGED <<oneReader, oneKeys, cutReader, cutKeys>>
        /\ UNCHANGED chunkingFrame

\* the first KeyReader's ReadKeypress whose Read delivers the whole stream
WholeRead ==
    /\ stream # NoStream
    /\ oneKeys = <<>>
    /\ oneReader = NewKeyReader
    /\ LET ret == ReadKeypress(oneReader, stream)
       IN  /\ oneReader' = ret.r
           /\ oneKeys' = Seen(oneKeys, ret.kp)
    /\ UNCHANGED <<stream, unsent, cutReader, cutKeys>>
    /\ UNCHANGED chunkingFrame

\* its ReadKeypress calls that parse the bytes left in the buffer
WholeBuffered ==
    /\ oneReader # NewKeyReader
    /\ ~MustRead(oneReader)
    /\ LET ret == ReadKeypress(oneReader, <<>>)
       IN  /\ oneReader' = ret.r
           /\ oneKeys' = Seen(oneKeys, ret.kp)
    /\ UNCHANGED <<stream, unsent, cutReader, cutKeys>>
    /\ UNCHANGED chunkingFrame

\* the second KeyReader's ReadKeypress whose Read delivers the next n bytes
CutRead ==
    \E n \in 1..Len(unsent) :
        /\ MustRead(cutReader)
        /\ LET ret == ReadKeypress(cutReader, SubSeq(unsent, 1, n))
           IN  /\ cutReader' = ret.r
               /\ cutKeys' = Seen(cutKeys, ret.kp)
        /\ unsent' = SubSeq(unsent, n + 1, Len(unsent))
        /\ UNCHANGED <<stream, oneReader, oneKeys>>
        /\ UNCHANGED chunkingFrame

CutBuffered ==
    /\ stream # NoStream
    /\ ~MustRead(cutReader)
    /\ LET ret == ReadKeypress(cutReader, <<>>)
       IN  /\ cutReader' = ret.r
           /\ cutKeys' = Seen(cutKeys, ret.kp)
    /\ UNCHANGED <<stream, unsent, oneReader, oneKeys>>
    /\ UNCHANGED chunkingFrame

NextChunking ==
    \/ ChooseStream
    \/ WholeRead
    \/ WholeBuffered
    \/ CutRead
    \/ CutBuffered

----------------------------------------------------------------------------
Init ==
    /\ InitLine /\ InitParse /\ InitRing /\ InitScroller /\ InitReader /\ InitKeyReader
    /\ InitBrowse /\ InitComplete /\ InitLocked
    /\ InitPrompt /\ InitPassword /\ InitStaging /\ InitChunking

Next ==
    \/ NextLine \/ NextParse \/ NextRing \/ NextScroller \/ NextReader \/ NextKeyReader
    \/ NextBrowse
    \/ NextComplete
    \/ NextLocked
    \/ NextPrompt
    \/ NextPassword
    \/ NextStaging
    \/ NextChunking

Spec == Init /\ [][Next]_vars

SpecLine == Init /\ [][NextLine]_vars

SpecParse == Init /\ [][NextParse]_vars

SpecRing == Init /\ [][NextRing]_vars

SpecScroller == Init /\ [][NextScroller]_vars

SpecReader == Init /\ [][NextReader]_vars

SpecKeyReader == Init /\ [][NextKeyReader]_vars

SpecBrowse == Init /\ [][NextBrowse]_vars

SpecComplete == Init /\ [][NextComplete]_vars

SpecLocked == Init /\ [][NextLocked]_vars

SpecPrompt == Init /\ [][NextPrompt]_vars

SpecPassword == Init /\ [][NextPassword]_vars

SpecStaging == Init /\ [][NextStaging]_vars

SpecChunking == Init /\ [][NextChunking]_vars

\* the threads are scheduled while they can run; the caller and the byte
\* source owe nothing
SpecLockedFair ==
    Init /\ [][NextLocked]_vars /\ WF_vars(LockedStep) /\ WF_vars(ObserverStep)

----------------------------------------------------------------------------
\* C1: after every Line operation applied to an initially empty Line,
\* 0 <= Pos <= len(Text).
C1_PosInBounds == line.Pos >= 0 /\ line.Pos <= Len(line.Text)

\* C1 witness: a word motion has acted on a line holding text on both sides
\* of the cursor
C1_Witness ==
    /\ lastOp = "MoveToLeftWord"
    /\ line.Pos > 0
    /\ line.Pos < Len(line.Text)

\* C2: without force, ParseKey returns 0 <= n <= len(B), and n = 0 only
\* together with RuneError.
C2_ConsumedInBounds ==
    ~ForceParse =>
        /\ res.rl >= 0
        /\ res.rl <= Len(inb)
        /\ (res.rl = 0 => res.r = RuneError)

\* C2 witness: a non-empty unfinished escape sequence, for which the parser
\* asks for more bytes
C2_Witness ==
    /\ ~ForceParse
    /\ Len(inb) > 2
    /\ inb[1] = 27
    /\ res.rl = 0
    /\ res.r = RuneError

\* C3: without force, once ParseKey returns n > 0 for B, it returns the same
\* (key, n, mod) for B followed by any further bytes.
C3_Monotonic ==
    [][(~ForceParse /\ ~ForceParse' /\ res.rl > 0) => res' = res]_vars

\* C4: without force, each unmodified recognized sequence S parses to exactly
\* (the listed key, len(S), no modifier).
C4_RecognizedKeys ==
    ~ForceParse =>
        \A e \in PlainKeys : inb = e[1] => res = Result(e[2], Len(e[1]), ModNone)

\* C4 witness: the six-byte paste-start marker has been parsed
C4_Witness ==
    /\ ~ForceParse
    /\ inb = <<27, 91, 50, 48, 48, 126>>
    /\ res.r = KeyPasteStart

\* C5: without force, every Alt encoding S of a cursor or editing key K
\* parses to (K, len(S), Alt).
C5_AltKeys ==
    ~ForceParse =>
        \A e \in AltKeys : inb = e[1] => res = Result(e[2], Len(e[1]), ModAlt)

\* the input starts with "\x1bO" P/Q/R/S or "\x1bO1" P/Q/R/S
C6_IsSS3Sequence(b) ==
    /\ Len(b) >= 3
    /\ b[1] = 27
    /\ b[2] = 79
    /\ \/ b[3] \in 80..83
       \/ Len(b) >= 4 /\ b[3] = 49 /\ b[4] \in 80..83

\* C6: ESC followed by a complete rune r of k bytes (not '[' or ESC, and not
\* an SS3 function key) parses to (r, k + 1, Alt) whatever bytes follow.
C6_AltRune ==
    (/\ Len(inb) >= 2
     /\ inb[1] = 27
     /\ inb[2] \notin {91, 27}
     /\ FullRune(From(inb, 1))
     /\ ~C6_IsSS3Sequence(inb))
    => res = Result(DecodeRune(From(inb, 1)).r, DecodeRune(From(inb, 1)).size + 1, ModAlt)

\* C7: without force, every Meta encoding parses to the underlying key with
\* Meta set and all of its bytes consumed: "\x1bO1" P..S, "\x1b[NM;1~", and
\* a recognized sequence behind the three-byte meta prefix (the inner key,
\* 3 + the inner length, the inner modifiers plus Meta).
C7_MetaKeys ==
    ~ForceParse =>
        /\ \A e \in MetaKeys : inb = e[1] => res = Result(e[2], Len(e[1]), ModMeta)
        /\ \A e \in PlainKeys \cup AltKeys \cup MetaKeys :
              inb = MetaPrefix \o e[1] =>
                  res = Result(ParseKey(e[1], FALSE).r, 3 + Len(e[1]),
                               ModOr(ParseKey(e[1], FALSE).mod, ModMeta))

\* C8: without force, an ESC-led input that matches no recognized pattern
\* yields (Unknown, i + 1, mod) with i the index of its first byte in
\* [a-zA-Z~], whatever its length; (RuneError, 1, None) only when there is
\* no such byte and the input is longer than 8 bytes; (RuneError, 0, None)
\* when there is no such byte and the input has at most 8 bytes.
C8_KeyUnknown ==
    (/\ ~ForceParse
     /\ Len(inb) >= 1
     /\ inb[1] = 27
     /\ (Len(inb) = 1 \/ inb[2] \in {91, 27})
     /\ res.r \in {KeyUnknown, RuneError})
    => IF FirstTerminator(inb, 0) < Len(inb)
       THEN res.r = KeyUnknown /\ res.rl = FirstTerminator(inb, 0) + 1
       ELSE IF Len(inb) > 8 THEN res = Result(RuneError, 1, ModNone)
       ELSE res = Result(RuneError, 0, ModNone)

\* C9: the inputs ESC, ESC ESC and ESC '[' are resolved only by force: with
\* force they are (Escape, 1, None), (Escape, 2, Alt), (LeftBracket, 2, Alt);
\* without force each one is (RuneError, 0, None).
C9_ForceShort ==
    /\ inb = <<27>> =>
          res = IF ForceParse THEN Result(KeyEscape, 1, ModNone)
                ELSE Result(RuneError, 0, ModNone)
    /\ inb = <<27, 27>> =>
          res = IF ForceParse THEN Result(KeyEscape, 2, ModAlt)
                ELSE Result(RuneError, 0, ModNone)
    /\ inb = <<27, 91>> =>
          res = IF ForceParse THEN Result(KeyLeftBracket, 2, ModAlt)
                ELSE Result(RuneError, 0, ModNone)

\* C9 witness: ESC '[' has been parsed under force
C9_Witness ==
    /\ ForceParse
    /\ inb = <<27, 91>>
    /\ res.r = KeyLeftBracket

\* C10: after the adds a_1..a_k, NthPreviousEntry(n) returns (a_(k-n), found)
\* for every 0 <= n < min(k, cap) and not-found for every n >= min(k, cap);
\* a full ring has dropped exactly its oldest entries.
C10_RingLookup ==
    query.n >= 0 =>
        LET k == Len(added)
            m == IF k < defaultNumEntries THEN k ELSE defaultNumEntries
        IN  IF query.n < m
            THEN query.ok /\ query.value = added[k - query.n]
            ELSE ~query.ok

\* C10 witness: the ring has wrapped and the oldest surviving entry is
\* looked up
C10_Witness ==
    /\ Len(added) > defaultNumEntries + 1
    /\ query.n = defaultNumEntries - 1
    /\ query.ok
    /\ query.value = added[Len(added) - query.n]


\* C11: after every Filter call with InputWidth >= 1 and MaxLineLength >= 1,
\* 0 <= ScrollOffset <= max(0, MaxLineLength - InputWidth).
C11_OffsetInRange ==
    (filtered.called /\ scroller.InputWidth >= 1 /\ scroller.MaxLineLength >= 1) =>
        /\ scroller.ScrollOffset >= 0
        /\ scroller.ScrollOffset <=
               (IF scroller.MaxLineLength - scroller.InputWidth > 0
                THEN scroller.MaxLineLength - scroller.InputWidth
                ELSE 0)

\* C12: after every Filter call with InputWidth >= 1 and MaxLineLength >= 1
\* that returned a non-empty slice, 0 <= cursorLoc < InputWidth.
C12_CursorOnScreen ==
    (/\ filtered.called
     /\ ~filtered.panicked
     /\ scroller.InputWidth >= 1
     /\ scroller.MaxLineLength >= 1
     /\ filtered.out # <<>>) =>
        /\ filtered.cursorLoc >= 0
        /\ filtered.cursorLoc < scroller.InputWidth

\* the index just past the visible runes: min(ScrollOffset + InputWidth, len)
C13_End ==
    IF scroller.ScrollOffset + scroller.InputWidth < Len(filtered.l.Text)
    THEN scroller.ScrollOffset + scroller.InputWidth
    ELSE Len(filtered.l.Text)

\* C13: a Filter call with InputWidth >= 1 and MaxLineLength >= 1 returns the
\* runes line[ScrollOffset .. min(ScrollOffset + InputWidth, len)], the first
\* one replaced by LeftOverflow iff ScrollOffset > 0 and LeftOverflow # 0, the
\* last one replaced by RightOverflow iff ScrollOffset + InputWidth < len and
\* RightOverflow # 0, every other rune unchanged; with InputWidth 10,
\* MaxLineLength 100, ScrollBy 10, 25 runes, cursor 15 and offset 0 before the
\* call these are 10 runes from offset 10, the first one the ellipsis, and the
\* cursor column is 5.
C13_VisibleRunes ==
    (filtered.called /\ scroller.InputWidth >= 1 /\ scroller.MaxLineLength >= 1) =>
        /\ ~filtered.panicked
        /\ Len(filtered.out) = C13_End - scroller.ScrollOffset
        /\ \A i \in 1..Len(filtered.out) :
               filtered.out[i] =
                   IF i = 1 /\ scroller.ScrollOffset > 0 /\ scroller.LeftOverflow # 0
                   THEN scroller.LeftOverflow
                   ELSE IF /\ i = Len(filtered.out)
                           /\ scroller.ScrollOffset + scroller.InputWidth < Len(filtered.l.Text)
                           /\ scroller.RightOverflow # 0
                   THEN scroller.RightOverflow
                   ELSE filtered.l.Text[scroller.ScrollOffset + i]
        /\ (/\ scroller.InputWidth = 10
            /\ scroller.MaxLineLength = 100
            /\ scroller.ScrollBy = 10
            /\ scroller.LeftOverflow = Ellipsis
            /\ Len(filtered.l.Text) = 25
            /\ filtered.l.Pos = 15
            /\ filtered.before = 0) =>
               /\ scroller.ScrollOffset = 10
               /\ Len(filtered.out) = 10
               /\ filtered.out[1] = Ellipsis
               /\ filtered.cursorLoc = 5

\* C14: when ReadLine returns a line whose whole content was entered inside
\* a bracketed paste (keys were added inside a paste and no key but the
\* closing Enter was handled outside one), it returns ErrPasteIndicator with
\* it, also when Enter arrives after the end of the paste.
C14_PasteIndicator ==
    (/\ call.pc = "idle"
     /\ call.err \in {"nil", "ErrPasteIndicator"}
     /\ call.allPasted) =>
        call.err = "ErrPasteIndicator"

\* C15: outside a paste, Ctrl-D read on an empty line makes ReadLine return
\* ("", EOF); on a line that is not empty it never yields EOF and deletes the
\* rune under the cursor (nothing at the end of the line).  The line is the
\* one at the moment Ctrl-D is processed: a, Backspace, Ctrl-D read at once
\* into an empty line yield EOF, and a, Ctrl-D read at once do not.
C15_CtrlD ==
    [][(/\ call.pc = "Read"
        /\ nReads' = nReads + 1
        /\ reader.remainder = <<>>
        /\ ~reader.pasteActive) =>
           /\ (lastRead' = <<4>> /\ reader.input.Text = <<>>) =>
                  (call'.pc = "idle" /\ call'.err = "EOF" /\ call'.line = <<>>)
           /\ (lastRead' = <<4>> /\ reader.input.Text # <<>>) =>
                  /\ call'.pc = "Read"
                  /\ call'.err # "EOF"
                  /\ reader'.input.Pos = reader.input.Pos
                  /\ reader'.input.Text =
                         IF reader.input.Pos < Len(reader.input.Text)
                         THEN SubSeq(reader.input.Text, 1, reader.input.Pos) \o
                              SubSeq(reader.input.Text, reader.input.Pos + 2,
                                     Len(reader.input.Text))
                         ELSE reader.input.Text
           /\ (lastRead' = <<97, 127, 4>> /\ reader.input.Text = <<>>) =>
                  (call'.pc = "idle" /\ call'.err = "EOF" /\ call'.line = <<>>)
           /\ (lastRead' = <<97, 4>> /\ reader.input.Text = <<>>) =>
                  /\ call'.pc = "Read"
                  /\ call'.err # "EOF"
                  /\ reader'.input = [Text |-> <<97>>, Pos |-> 1]]_vars

\* C15 witness: Ctrl-D has deleted the last rune of "hello world" from under
\* the cursor
C15_Witness ==
    /\ lastRead = <<4>>
    /\ call.pc = "Read"
    /\ reader.input = [Text |-> SubSeq(HelloWorld, 1, 10), Pos |-> 10]

\* C16: once "hello world", then ESC ESC [ D, then Ctrl-W were read into an
\* empty line that has room for the eleven runes, the line is "hello " and
\* the cursor is at position 6.
C16_HelloWorld ==
    (scenario = 3 /\ reader.MaxLineLength >= Len(HelloWorld)) =>
        reader.input = [Text |-> SubSeq(HelloWorld, 1, 6), Pos |-> 6]

\* C16 witness: the three reads of the scenario are done and ReadLine waits
\* for the next key
C16_Witness ==
    /\ scenario = 3
    /\ reader.MaxLineLength >= Len(HelloWorld)
    /\ lastRead = <<23>>
    /\ call.pc = "Read"
    /\ Len(reader.input.Text) = 6

\* C17: without an auto-complete callback the line buffer never holds more
\* than MaxLineLength runes, whatever was typed, pasted or recalled from the
\* history.
C17_LineLength == Len(reader.input.Text) <= reader.MaxLineLength

\* C18: every rune stored in the line buffer is printable: at least 32 and
\* outside 0xD800..0xDBFF, with or without a bracketed paste.
C18_Printable ==
    \A i \in 1..Len(reader.input.Text) :
        /\ reader.input.Text[i] >= 32
        /\ ~(reader.input.Text[i] >= 55296 /\ reader.input.Text[i] <= 56319)

\* C19: the buffer bytes a Keypress's Raw aliases, positions [0, Size), are
\* the same from the return of ReadKeypress until the next call starts: the
\* buffer still begins with them and its compaction by Size is pending in
\* offset.
C19_RawStable ==
    keyCall.err = "nil" =>
        /\ keypress.Size <= Len(keyReader.remainder)
        /\ SubSeq(keyReader.remainder, 1, keypress.Size) = keypress.Raw
        /\ keyReader.offset = keypress.Size

\* a key was returned while more bytes wait behind it in the buffer
C19_Witness ==
    /\ keyCall.err = "nil"
    /\ keypress.Size > 0
    /\ Len(keyReader.remainder) > keypress.Size
    /\ From(keyReader.remainder, keypress.Size) # keypress.Raw

\* C20: ReadKeypress never returns, with a nil error, a Keypress whose Size
\* is 0.
C20_NeverSizeZero == keyCall.err = "nil" => keypress.Size > 0

\* C20 as the code has it: a partial sequence comes back, with a nil error,
\* as a Keypress of Key RuneError, Size 0 and empty Raw; the pending bytes
\* stay in the buffer, midRune is set, and the next call reads from the
\* source before it parses again.
C20_PartialSurfaced ==
    (keyCall.err = "nil" /\ keypress.Key = RuneError /\ keypress.Size = 0) =>
        /\ keypress.Raw = <<>>
        /\ keyReader.remainder = keyCall.pending
        /\ keyReader.offset = 0
        /\ keyReader.midRune
        /\ MustRead(keyReader)

\* ESC alone was read without ForceParse and came back as a partial sequence
C20_Witness ==
    /\ keyCall.err = "nil"
    /\ keyCall.read
    /\ ~keyReader.ForceParse
    /\ keyCall.pending = <<ChESC>>
    /\ keypress.Key = RuneError
    /\ keypress.Size = 0


\* the number of consecutive spaces of t that end at index p, and the number
\* of consecutive runes other than a space that end there
RECURSIVE C28_Spaces(_, _)
C28_Spaces(t, p) == IF p > 0 /\ t[p] = 32 THEN 1 + C28_Spaces(t, p - 1) ELSE 0

RECURSIVE C28_Word(_, _)
C28_Word(t, p) == IF p > 0 /\ t[p] # 32 THEN 1 + C28_Word(t, p - 1) ELSE 0

C28_Distance(l) ==
    C28_Spaces(l.Text, l.Pos) + C28_Word(l.Text, l.Pos - C28_Spaces(l.Text, l.Pos))

\* C28: on every line and cursor CountToLeftWord returns the number of
\* spaces left of the cursor plus the number of runes of the word left of
\* those spaces, and MoveToLeftWord moves Pos left by that amount.
C28_LeftWord ==
    /\ CountToLeftWord(line) = C28_Distance(line)
    /\ MoveToLeftWord(line) = [line EXCEPT !.Pos = @ - C28_Distance(line)]

\* C29: EraseNPreviousChars(n) removes the min(n, Pos) runes before the
\* cursor and lowers Pos by as much, DeleteToBeginningOfLine removes all
\* runes before the cursor, DeleteRuneUnderCursor removes the rune at Pos and
\* nothing at the end of the line; the other runes stay as they are.
C29_Erase ==
    /\ \A n \in 0..(MaxText + 1) :
          LET m == IF n < line.Pos THEN n ELSE line.Pos
          IN  EraseNPreviousChars(line, n) =
                  [Text |-> SubSeq(line.Text, 1, line.Pos - m)
                                \o SubSeq(line.Text, line.Pos + 1, Len(line.Text)),
                   Pos  |-> line.Pos - m]
    /\ DeleteToBeginningOfLine(line) =
           [Text |-> SubSeq(line.Text, line.Pos + 1, Len(line.Text)), Pos |-> 0]
    /\ DeleteRuneUnderCursor(line) =
           IF line.Pos = Len(line.Text) THEN line
           ELSE [Text |-> SubSeq(line.Text, 1, line.Pos)
                              \o SubSeq(line.Text, line.Pos + 2, Len(line.Text)),
                 Pos  |-> line.Pos]

\* an erase has just taken runes from a line that keeps runes on both sides
\* of its cursor
C29_Witness ==
    /\ lastOp \in {"EraseNPreviousChars", "DeleteRuneUnderCursor"}
    /\ line.Pos >= 2
    /\ Len(line.Text) > line.Pos


\* C24: with InputWidth >= MaxLineLength >= 1, Filter on a line of at most
\* MaxLineLength runes leaves ScrollOffset at 0, returns the whole line and
\* returns Pos as the cursor column.
C24_NoScroll ==
    (/\ filtered.called
     /\ scroller.MaxLineLength >= 1
     /\ scroller.InputWidth >= scroller.MaxLineLength
     /\ Len(filtered.l.Text) <= scroller.MaxLineLength) =>
        /\ ~filtered.panicked
        /\ scroller.ScrollOffset = 0
        /\ filtered.out = filtered.l.Text
        /\ filtered.cursorLoc = filtered.l.Pos


\* C23: without force, ParseKey on more than 8 bytes takes at least one
\* byte.
C23_Unstuck == (~ForceParse /\ Len(inb) > 8) => res.rl >= 1


\* C30: with s lines in the history, j <= s Up keys pressed from
\* historyIndex = -1 show the j-th most recent line with the cursor at its
\* end; as many Down keys behind k <= s Up keys show the line that was in
\* progress again, cursor at its end, historyIndex = -1; an Up key at the
\* oldest entry or without history and a Down key at -1 change neither the
\* line nor historyIndex.
C30_Browse ==
    /\ (browse.run = "ups" /\ browse.ups <= Len(entered) /\ ~hReader.NoHistory) =>
          /\ hReader.input.Text = entered[Len(entered) - browse.ups + 1]
          /\ hReader.input.Pos = Len(hReader.input.Text)
          /\ hReader.historyIndex = browse.ups - 1
    /\ (/\ browse.run = "downs"
        /\ browse.ups <= Len(entered)
        /\ browse.downs = browse.ups
        /\ ~hReader.NoHistory) =>
          /\ String(hReader.input) = String(browse.L)
          /\ hReader.input.Pos = Len(hReader.input.Text)
          /\ hReader.historyIndex = -1
    /\ (/\ browse.last = "up"
        /\ (browse.before.NoHistory \/ browse.before.historyIndex + 1 >= Len(entered))) =>
          /\ hReader.input = browse.before.input
          /\ hReader.historyIndex = browse.before.historyIndex
    /\ (browse.last = "down" /\ browse.before.historyIndex = -1) =>
          /\ hReader.input = browse.before.input
          /\ hReader.historyIndex = -1

\* two Up keys and two Down keys were pressed over a line in progress
C30_Witness ==
    /\ browse.run = "downs"
    /\ browse.ups = 2
    /\ browse.downs = 2
    /\ Len(entered) >= 2
    /\ browse.L.Text # <<>>
    /\ hReader.input.Text = browse.L.Text

\* the same with a pasted unknown key in the line in progress
C30_PastedWitness ==
    /\ browse.run = "downs"
    /\ browse.downs = browse.ups
    /\ browse.ups <= Len(entered)
    /\ keyUnknownKey \in {browse.L.Text[i] : i \in 1..Len(browse.L.Text)}


\* C25: with an AutoCompleteCallback set, every key the Reader handles is
\* passed to the callback, together with the whole line before the key and
\* the cursor position as a byte index into that line.
C25_CalledForEachKey ==
    completion.key # 0 =>
        /\ completion.called
        /\ completion.args.key = completion.key
        /\ completion.args.line = String(completion.before)
        /\ completion.args.pos
               = Len(Bytes(RunesToString(Slice(completion.before.Text, 0, completion.before.Pos))))


\* C21: what LinePos returns to an observer thread is what the Input held
\* before or after a whole handleKey, never a value in the middle of one,
\* and so its position is at most the number of runes of its line.
C21_Snapshot ==
    (obs.pc = "done" /\ obs.fn = "LinePos") =>
        /\ [line |-> obs.line, pos |-> obs.pos] \in committed
        /\ obs.pos <= Len(obs.line)

\* the observer was let in between two keys, and read a line with the cursor
\* inside it
C21_Witness ==
    /\ obs.pc = "done" /\ obs.fn = "LinePos"
    /\ Len(obs.line) > 0
    /\ obs.pos < Len(obs.line)
    /\ lk.pc = "Locking"

\* C22: ReadLine holds no lock while it waits in Read, and a LinePos or Pos
\* call of the observer thread returns in the end, also when no more input
\* arrives.
C22_Returns ==
    /\ [](lk.pc = "Read" =>
             (~mutex.writer /\ ~mutex.pending
              /\ mutex.readers = (IF obs.pc \in {"String", "Pos"} THEN 1 ELSE 0)))
    /\ ((obs.pc = "RLock") ~> (obs.pc = "done"))

\* the observer got its answer while ReadLine sat in Read with no input left
C22_Witness ==
    /\ obs.pc = "done"
    /\ lk.pc = "Read"
    /\ nLockReads = MaxLockReads


\* what the cells of the terminal should show: the visible runes, and a
\* blank in every cell behind them
C26_Shows(cells, visible) ==
    /\ Len(cells) >= Len(visible)
    /\ \A k \in 1..Len(cells) :
           cells[k] = IF k <= Len(visible) THEN visible[k] ELSE 32

\* C26: after every key but Enter the terminal shows the visible part of the
\* line, with blanks where runes were drawn before, its cursor is at column
\* Pos - ScrollOffset, and lastOutput and lastCurPos are what the terminal
\* shows and where its cursor is.
C26_Consistent ==
    (drawn.key # 0 /\ drawn.key # keyEnter) =>
        /\ ~drawn.panicked
        /\ C26_Shows(screen.cells,
                     Slice(pReader.input.Text, prompt.ScrollOffset, VisibleEnd(prompt, pReader.input)))
        /\ screen.cursor = pReader.input.Pos - prompt.ScrollOffset
        /\ C26_Shows(screen.cells, prompt.lastOutput)
        /\ prompt.lastCurPos = screen.cursor

\* C27: for a key other than Enter the Prompt writes runes only from the
\* first index on at which the output drawn before and the visible runes
\* differ, and writes nothing when neither they nor the cursor column change.
C27_Incremental ==
    (drawn.key # 0 /\ drawn.key # keyEnter /\ ~drawn.panicked) =>
        /\ screen.low # -1 =>
               /\ runesDiffer(drawn.lastOutput, prompt.lastOutput) # -1
               /\ screen.low >= runesDiffer(drawn.lastOutput, prompt.lastOutput)
        /\ (prompt.lastOutput = drawn.lastOutput /\ screen.cursor = drawn.cursor)
               => drawn.out = <<>>


\* a rune typed behind others was drawn alone, in the column behind them
C27_Witness ==
    /\ drawn.key = 97 /\ ~drawn.panicked
    /\ Len(drawn.lastOutput) >= 1
    /\ screen.low = Len(drawn.lastOutput)
    /\ runesDiffer(drawn.lastOutput, prompt.lastOutput) = screen.low

\* a key that changed neither the visible runes nor the cursor column, with
\* runes on the screen
C27_SilentWitness ==
    /\ drawn.key \in {keyLeft, keyHome} /\ ~drawn.panicked
    /\ Len(prompt.lastOutput) >= 1
    /\ prompt.lastOutput = drawn.lastOutput /\ screen.cursor = drawn.cursor
    /\ drawn.out = <<>>


\* C31: on Enter ReadLine returns the line typed and leaves the Input empty
\* with Pos 0; the line goes to the history and historyIndex to -1 exactly
\* when NoHistory is false; ReadPassword leaves the history as it found it
\* and NoHistory as it was before the call.
C31_Enter ==
    /\ (wCall.pc = "idle" /\ wCall.err \in {"nil", "ErrPasteIndicator"}) =>
           /\ wReader.input = NewLine
           /\ wLast.c = <<13>> => wCall.line = String(wLast.r.input)
           /\ wLast.c = <<97, 13>> =>
                  wCall.line = String(AddKeyToLine(wLast.r.input, 97))
           /\ IF wLast.r.NoHistory
              THEN /\ wReader.history = wLast.r.history
                   /\ wReader.historyIndex = wLast.r.historyIndex
              ELSE /\ wReader.history = Add(wLast.r.history, wCall.line)
                   /\ wReader.historyIndex = -1
    /\ (wCall.pc = "idle" /\ wCall.fn = "ReadPassword") =>
           /\ wReader.history = wAtCall.history
           /\ wReader.NoHistory = wAtCall.NoHistory

\* ReadPassword returned a line typed into a Reader that keeps a history
\* with a line in it
C31_Witness ==
    /\ wCall.pc = "idle" /\ wCall.fn = "ReadPassword" /\ wCall.err = "nil"
    /\ Len(wCall.line) > 0
    /\ ~wReader.NoHistory
    /\ wReader.history.size > 0

\* ReadLine returned a line, which went to the history
C31_HistoryWitness ==
    /\ wCall.pc = "idle" /\ wCall.fn = "ReadLine" /\ wCall.err = "nil"
    /\ Len(wCall.line) > 0
    /\ ~wLast.r.NoHistory
    /\ wReader.history # wLast.r.history


\* the rune a key typed into a paste stands for: the byte itself for a, D
\* and the control bytes, keyUnknown for an escape sequence
C32_Rune(c) ==
    IF Len(c) = 1 THEN c[1] ELSE keyUnknownKey

\* the keys of Chunks that are one key other than Enter and PasteEnd
C32_Keys ==
    {<<97>>, <<68>>, <<4>>, <<127>>, <<23>>, <<27, 91, 68>>, <<27, 91, 65>>, <<27, 91, 66>>,
     <<27, 91, 49, 59, 51, 68>>, EscEscLeft, pasteStart}

\* C32: in a paste every key but Enter and PasteEnd (Backspace, control
\* bytes and escape sequences too) is put into the line at the cursor as
\* AddKeyToLine puts it, and nothing else happens: no erase, no move, no
\* history fetch, no EOF.
C32_PastedVerbatim ==
    [][(/\ call.pc = "Read" /\ reader.pasteActive /\ reader.remainder = <<>>
        /\ nReads' = nReads + 1 /\ lastRead' \in C32_Keys)
       => /\ reader' = [reader EXCEPT !.input = AddKeyToLine(@, C32_Rune(lastRead'))]
          /\ call'.pc = "Read"]_vars

\* a Backspace typed into a paste stands in the line
C32_Witness ==
    /\ call.pc = "Read" /\ reader.pasteActive /\ reader.remainder = <<>>
    /\ lastRead = <<127>>
    /\ reader.input.Pos > 0
    /\ reader.input.Text[reader.input.Pos] = 127


\* C33: every byte of the input is accounted for once: the Raw of a Keypress
\* is the first Size of the bytes that were pending when ParseKey was
\* called, as they came from the source, and the bytes behind them are what
\* the next call starts from.
C33_Accounted ==
    keyCall.err = "nil" =>
        /\ keypress.Size <= Len(keyCall.pending)
        /\ keypress.Raw = SubSeq(keyCall.pending, 1, keypress.Size)
        /\ Unshift(keyReader).remainder = From(keyCall.pending, keypress.Size)


\* C36: ParseKey leaves the bytes of its argument as they are: behind the
\* call the staging buffer of the KeyReader holds what it held before it.
C36_ReadOnly ==
    keyCall.err = "nil" => keyReader.remainder = keyCall.pending


\* C34: a read error ends the ReadLine call that met it, with that error
\* and without another Read, and leaves the line, the cursor, the paste
\* flag, the pending bytes and the history as they were before the Read.
C34_ReadError ==
    [][(call.pc = "Read" /\ call'.err = "io")
       => (call'.pc = "idle" /\ reader' = reader /\ nReads' = nReads)]_vars

\* C34: a read error ends the ReadKeypress call that met it and leaves the
\* pending bytes and the flags of the KeyReader as they were
C34_KeypressError ==
    [][(keyCall'.err = "io" /\ keyReader'.ForceParse = keyReader.ForceParse)
       => /\ Unshift(keyReader').remainder = Unshift(keyReader).remainder
          /\ keyReader'.midRune = keyReader.midRune
          /\ keypress'.Size = 0
          /\ nKeyReads' = nKeyReads]_vars

\* a read failed with a line half typed and the start of a sequence pending
C34_Witness ==
    /\ call.pc = "idle" /\ call.err = "io"
    /\ Len(reader.input.Text) > 0
    /\ Len(reader.remainder) > 0


\* C35: with force set ParseKey consumes at least one byte, and no more than
\* it was given, of every non-empty input
C35_ForceProgress ==
    (ForceParse /\ Len(inb) > 0) => (res.rl >= 1 /\ res.rl <= Len(inb))

\* C35: a KeyReader with ForceParse set is never left waiting for the rest
\* of a rune by a call that had bytes to parse
C35_NeverMidRune ==
    [][(keyReader.ForceParse /\ keyReader'.ForceParse /\ keyCall'.err = "nil"
        /\ Len(keyCall'.pending) > 0)
       => (~keyReader'.midRune /\ keypress'.Size >= 1)]_vars

\* force mode has parsed an unfinished escape sequence of several bytes
C35_Witness ==
    /\ ForceParse
    /\ Len(inb) > 2
    /\ inb[1] = ChESC
    /\ res.r = RuneError
    /\ res.rl = Len(inb)


\* C39: with InputWidth >= 1 and MaxLineLength >= 1 the cursor column that
\* Filter returns is Pos minus the ScrollOffset the call left behind
C39_CursorColumn ==
    (filtered.called /\ ~filtered.panicked
     /\ scroller.InputWidth >= 1 /\ scroller.MaxLineLength >= 1)
    => filtered.cursorLoc = filtered.l.Pos - scroller.ScrollOffset


\* C38: a ReadLine that returns EOF for Ctrl-D has taken the Ctrl-D byte and
\* the bytes before it off the pending bytes, so that the call after it does
\* not return EOF again without a Read
C38_DispatchedOnce ==
    [][(call'.pc = "idle" /\ call'.err = "EOF" /\ nReads' = nReads)
       => (call.err # "EOF" /\ Len(reader'.remainder) < Len(reader.remainder))]_vars


\* C40: at every blocking Read of ReadLine fewer than 256 bytes are pending,
\* so the buffer handed to the source has room
C40_RoomToRead == sCall.pc = "Read" => Len(sReader.remainder) < inBufSize

\* C37: once both KeyReaders have returned every key the stream holds, the
\* one that read the stream whole and the one that read it in pieces have
\* returned the same (key, modifier, size) sequence
C37_SameKeys ==
    (/\ stream # NoStream
     /\ oneReader # NewKeyReader /\ MustRead(oneReader)
     /\ unsent = <<>> /\ MustRead(cutReader))
    => cutKeys = oneKeys

=============================================================================
